---------------------------- MODULE Spec2Model ----------------------------
(***************************************************************************)
(* Model of the COL/VAL converters under src/Converters/computers:        *)
(*   dcm.py, walmart.py  FIELD_RE, robust_parse_col_val, parse_tabbed_file *)
(*   iTuens.py           robust_parse_col_val, parse_tabbed_file          *)
(*   computer.py         extract_title, ditto_to_deepmatcher              *)
(*                                                                         *)
(* A Python str is a sequence of one-character strings.  Offsets into a    *)
(* text are Python offsets: 0-based, and a span [s, e) is half open.       *)
(***************************************************************************)
EXTENDS Integers, Sequences, FiniteSets, TLC

(***************************************************************************)
(* Characters and the character classes of Python's re module (ASCII).     *)
(***************************************************************************)
UpperSeq ==
  <<"A","B","C","D","E","F","G","H","I","J","K","L","M",
    "N","O","P","Q","R","S","T","U","V","W","X","Y","Z">>

LowerSeq ==
  <<"a","b","c","d","e","f","g","h","i","j","k","l","m",
    "n","o","p","q","r","s","t","u","v","w","x","y","z">>

UpperChars == {UpperSeq[i] : i \in DOMAIN UpperSeq}

LowerChars == {LowerSeq[i] : i \in DOMAIN LowerSeq}

DigitChars == {"0","1","2","3","4","5","6","7","8","9"}

\* str.lower() on one character
LowerOf ==
  [c \in UpperChars |-> LowerSeq[CHOOSE i \in DOMAIN UpperSeq : UpperSeq[i] = c]]

lower_char(c) == IF c \in UpperChars THEN LowerOf[c] ELSE c

\* str.lower()
lower(s) == [k \in DOMAIN s |-> lower_char(s[k])]

\* \s, and what str.strip() with no argument removes
SpaceChars == {" ", "\t", "\n", "\r", "\f"}

IsSpace(c) == c \in SpaceChars

\* \w, which decides \b
WordChars == UpperChars \cup LowerChars \cup DigitChars \cup {"_"}

IsWord(c) == c \in WordChars

\* [A-Za-z0-9_] of FIELD_RE
NameChars == UpperChars \cup LowerChars \cup DigitChars \cup {"_"}

IsNameChar(c) == c \in NameChars

\* [^\s] of the iTuens pattern
IsNonSpace(c) == ~IsSpace(c)

\* the argument of .strip(' |;,:')
StripChars == {" ", "|", ";", ",", ":"}

IsStripChar(c) == c \in StripChars

\* . of a pattern compiled without re.DOTALL
IsDot(c) == c # "\n"

\* a character class by name
InClass(cls, c) ==
  CASE cls = "space"    -> IsSpace(c)
    [] cls = "name"     -> IsNameChar(c)
    [] cls = "nonspace" -> IsNonSpace(c)
    [] cls = "strip"    -> IsStripChar(c)
    [] cls = "dot"      -> IsDot(c)
    [] cls = "tab"      -> c = "\t"
    [] cls = "nontab"   -> c # "\t"

(***************************************************************************)
(* String helpers over Python offsets.                                     *)
(***************************************************************************)
At(text, k) == text[k + 1]

\* text[s:e]
Slice(text, s, e) == SubSeq(text, s + 1, e)

\* the end of the longest run of characters of class cls that starts at p:
\* what a greedy C* consumes
RECURSIVE RunEnd(_, _, _)
RunEnd(text, p, cls) ==
  IF p < Len(text) /\ InClass(cls, At(text, p))
  THEN RunEnd(text, p + 1, cls)
  ELSE p

\* a literal of the pattern at offset p; ic is re.IGNORECASE
LitAt(text, p, lit, ic) ==
  /\ p + Len(lit) <= Len(text)
  /\ \A k \in 1..Len(lit) :
       IF ic THEN lower_char(text[p + k]) = lower_char(lit[k])
             ELSE text[p + k] = lit[k]

\* \b at offset p
WordBoundary(text, p) ==
  LET before == p > 0 /\ IsWord(At(text, p - 1))
      after  == p < Len(text) /\ IsWord(At(text, p))
  IN  before # after

\* the start of the longest run of characters of class cls that ends at q
RECURSIVE RunStart(_, _, _)
RunStart(s, q, cls) ==
  IF q > 0 /\ InClass(cls, At(s, q - 1))
  THEN RunStart(s, q - 1, cls)
  ELSE q

\* str.strip(chars): the characters of class cls removed from both ends
StripBy(s, cls) ==
  LET a == RunEnd(s, 0, cls)
  IN  IF a >= Len(s) THEN <<>> ELSE Slice(s, a, RunStart(s, Len(s), cls))

\* str.strip()
strip(s) == StripBy(s, "space")

\* re.sub(r'\s+', ' ', s): every maximal run of whitespace becomes one space
RECURSIVE CollapseFrom(_, _)
CollapseFrom(s, p) ==
  IF p >= Len(s) THEN <<>>
  ELSE IF IsSpace(At(s, p))
       THEN <<" ">> \o CollapseFrom(s, RunEnd(s, p, "space"))
       ELSE <<At(s, p)>> \o CollapseFrom(s, p + 1)

sub_spaces(s) == CollapseFrom(s, 0)

(***************************************************************************)
(* Regular-expression matching.  A match is [start, end, g1s, g1e]: the    *)
(* span of the whole match and the span of group 1.                        *)
(***************************************************************************)
NoMatch == [start |-> -1, end |-> -1, g1s |-> -1, g1e |-> -1]

COL == <<"C","O","L">>

VAL == <<"V","A","L">>

\* One attempt of a pattern of the shape  [\b]COL\s+(<name>+)\s+VAL[\b]  at
\* offset p.  The three quantifiers are greedy; because <name> never matches
\* whitespace and neither "V" nor a <name> character is matched by \s, giving
\* a character back never turns a failed attempt into a match, so the greedy
\* attempt is the only one the backtracking matcher can succeed with.
TripleAt(text, p, ic, wb, name) ==
  LET a == p + 3
      b == RunEnd(text, a, "space")
      c == RunEnd(text, b, name)
      d == RunEnd(text, c, "space")
      e == d + 3
  IN  IF /\ (wb => WordBoundary(text, p))
         /\ LitAt(text, p, COL, ic)
         /\ b > a
         /\ c > b
         /\ d > c
         /\ LitAt(text, d, VAL, ic)
         /\ (wb => WordBoundary(text, e))
      THEN [start |-> p, end |-> e, g1s |-> b, g1e |-> c]
      ELSE NoMatch

\* FIELD_RE without its VAL part: a field would start at a bare COL <name>
FIELD_RE_bareCOL(text, p) ==
  LET a == p + 3
      b == RunEnd(text, a, "space")
      c == RunEnd(text, b, "name")
  IN  IF /\ WordBoundary(text, p)
         /\ LitAt(text, p, COL, TRUE)
         /\ b > a
         /\ c > b
      THEN [start |-> p, end |-> c, g1s |-> b, g1e |-> c]
      ELSE NoMatch

\* dcm.py: FIELD_RE = re.compile(r'\bCOL\s+([A-Za-z0-9_]+)\s+VAL\b', re.IGNORECASE)
FIELD_RE(text, p) == TripleAt(text, p, TRUE, TRUE, "name")

\* walmart.py: the same pattern
walmart_FIELD_RE(text, p) == TripleAt(text, p, TRUE, TRUE, "name")

\* iTuens.py: pattern = re.compile(r'COL\s+([^\s]+)\s+VAL')
iTuens_pattern(text, p) == TripleAt(text, p, FALSE, FALSE, "nonspace")

Variants == {"dcm", "walmart", "iTuens"}

PatternAt(variant, text, p) ==
  CASE variant = "dcm"     -> FIELD_RE(text, p)
    [] variant = "walmart" -> walmart_FIELD_RE(text, p)
    [] variant = "iTuens"  -> iTuens_pattern(text, p)

\* list(pattern.finditer(text)): the scan starts at offset 0; after a match it
\* resumes at the match's end, after a failed attempt one character further on
RECURSIVE ScanFrom(_, _, _)
ScanFrom(variant, text, pos) ==
  IF pos >= Len(text) THEN <<>>
  ELSE LET m == PatternAt(variant, text, pos)
       IN  IF m # NoMatch
           THEN <<m>> \o ScanFrom(variant, text, m.end)
           ELSE ScanFrom(variant, text, pos + 1)

finditer(variant, text) == ScanFrom(variant, text, 0)

(***************************************************************************)
(* robust_parse_col_val.  A Python dict is a sequence of [key, val]        *)
(* entries in insertion order with no key twice.                           *)
(***************************************************************************)
HasKey(record, key) == \E k \in DOMAIN record : record[k].key = key

\* a dict that keeps the value of the first occurrence of a key
DictSet_keepFirst(record, key, val) ==
  IF HasKey(record, key) THEN record
  ELSE Append(record, [key |-> key, val |-> val])

\* record[key] = val
DictSet(record, key, val) ==
  IF HasKey(record, key)
  THEN [k \in DOMAIN record |->
          IF record[k].key = key THEN [key |-> key, val |-> val] ELSE record[k]]
  ELSE Append(record, [key |-> key, val |-> val])

\* record.get(key, "")
DictGet(record, key) ==
  IF HasKey(record, key)
  THEN record[CHOOSE k \in DOMAIN record : record[k].key = key].val
  ELSE <<>>

\* record.keys()
Keys(record) == {record[k].key : k \in DOMAIN record}

\* a value that starts at the marker instead of after it
ValueStart_atMarker(matches, i) == matches[i].start

\* start = m.end()
ValueStart(matches, i) == matches[i].end

\* a value that runs to the end of the text, whatever follows
ValueEnd_endOfText(matches, i, text) == Len(text)

\* end = matches[i + 1].start() if i + 1 < len(matches) else len(text)
ValueEnd(matches, i, text) ==
  IF i + 1 <= Len(matches) THEN matches[i + 1].start ELSE Len(text)

\* text[start:end] of occurrence i
RawValue(matches, i, text) ==
  Slice(text, ValueStart(matches, i), ValueEnd(matches, i, text))

\* key = m.group(1).strip().lower()      (iTuens.py: no .lower())
KeyOf(variant, matches, i, text) ==
  LET g == strip(Slice(text, matches[i].g1s, matches[i].g1e))
  IN  IF variant = "iTuens" THEN g ELSE lower(g)

\* val = text[start:end].strip()
\* val = re.sub(r'\s+', ' ', val).strip(' |;,:')     (not in iTuens.py)
ValOf(variant, matches, i, text) ==
  LET v == strip(RawValue(matches, i, text))
  IN  IF variant = "iTuens" THEN v ELSE StripBy(sub_spaces(v), "strip")

\* the loop over the matches, from occurrence i on
RECURSIVE FillFrom(_, _, _, _, _)
FillFrom(variant, matches, i, text, record) ==
  IF i > Len(matches) THEN record
  ELSE FillFrom(variant, matches, i + 1, text,
                DictSet(record, KeyOf(variant, matches, i, text),
                                ValOf(variant, matches, i, text)))

\* the matches found and the dict returned; dcm.py and walmart.py return {}
\* for an empty text before looking for matches
ParseCall(variant, text) ==
  IF variant # "iTuens" /\ text = <<>>
  THEN [matches |-> <<>>, spans |-> <<>>, record |-> <<>>]
  ELSE LET ms == finditer(variant, text)
       IN  [matches |-> ms,
            spans   |-> [i \in DOMAIN ms |->
                           [start |-> ValueStart(ms, i),
                            end   |-> ValueEnd(ms, i, text)]],
            record  |-> FillFrom(variant, ms, 1, text, <<>>)]

robust_parse_col_val(variant, text) == ParseCall(variant, text).record

(***************************************************************************)
(* computer.py: extract_title.                                             *)
(***************************************************************************)
TITLE == <<"t","i","t","l","e">>

\* the lookahead (?=\s+COL\s+|\s*$) at offset g.  In the first branch COL can
\* only start where the whitespace run ends; in the second, $ is the end of
\* the string or the offset of a final newline.
TitleLookahead(text, g) ==
  LET h == RunEnd(text, g, "space")
  IN  \/ /\ h > g
         /\ LitAt(text, h, COL, FALSE)
         /\ h + 3 < Len(text)
         /\ IsSpace(At(text, h + 3))
      \/ \E k \in g..h :
           \/ k = Len(text)
           \/ (k = Len(text) - 1 /\ At(text, k) = "\n")

\* One attempt of  COL\s+title\s+VAL\s+(.*?)(?=\s+COL\s+|\s*$)  at offset p.
\* The \s+ before the group is greedy and gives characters back only when no
\* group end works; the group .*? is lazy, so the shortest end is taken.
TitleAt(text, p) ==
  LET a == p + 3
      b == RunEnd(text, a, "space")
      c == b + 5
      d == RunEnd(text, c, "space")
      e == d + 3
      fmax == RunEnd(text, e, "space")
      cands == {fg \in ((e + 1)..fmax) \X (e..Len(text)) :
                  /\ fg[1] <= fg[2]
                  /\ \A k \in fg[1]..(fg[2] - 1) : IsDot(At(text, k))
                  /\ TitleLookahead(text, fg[2])}
      best == CHOOSE fg \in cands :
                \A o \in cands :
                  \/ fg[1] > o[1]
                  \/ (fg[1] = o[1] /\ fg[2] <= o[2])
  IN  IF /\ LitAt(text, p, COL, FALSE)
         /\ b > a
         /\ LitAt(text, b, TITLE, FALSE)
         /\ d > c
         /\ LitAt(text, d, VAL, FALSE)
         /\ fmax > e
         /\ cands # {}
      THEN [start |-> p, end |-> best[2], g1s |-> best[1], g1e |-> best[2]]
      ELSE NoMatch

\* re.search(pattern, entity_text): the leftmost offset with a match
RECURSIVE SearchFrom(_, _)
SearchFrom(text, pos) ==
  IF pos > Len(text) THEN NoMatch
  ELSE LET m == TitleAt(text, pos)
       IN  IF m # NoMatch THEN m ELSE SearchFrom(text, pos + 1)

\* s.replace(old, ''): the occurrences of old removed, left to right
RECURSIVE RemoveFrom(_, _, _)
RemoveFrom(s, old, p) ==
  IF p >= Len(s) THEN <<>>
  ELSE IF LitAt(s, p, old, FALSE)
       THEN RemoveFrom(s, old, p + Len(old))
       ELSE <<At(s, p)>> \o RemoveFrom(s, old, p + 1)

remove(s, old) == RemoveFrom(s, old, 0)

extract_title(entity_text) ==
  LET m == SearchFrom(entity_text, 0)
      raw_val == Slice(entity_text, m.g1s, m.g1e)
  IN  IF m # NoMatch
      THEN strip(remove(remove(remove(remove(raw_val,
                 <<"\"">>), <<"@","e","n">>), <<"@","N","L">>), <<"@","f","r">>))
      ELSE <<>>

(***************************************************************************)
(* parse_tabbed_file: the pure steps.                                      *)
(***************************************************************************)
\* the parts of a line from offset p on: merge is re.split(r'\t+', line), a
\* run of tabs being one separator; otherwise line.split('\t')
RECURSIVE SplitFrom(_, _, _)
SplitFrom(s, p, merge) ==
  LET q == RunEnd(s, p, "nontab")
  IN  IF q >= Len(s) THEN <<Slice(s, p, Len(s))>>
      ELSE <<Slice(s, p, q)>> \o
           SplitFrom(s, IF merge THEN RunEnd(s, q, "tab") ELSE q + 1, merge)

\* parts = re.split(r'\t+', line)        (iTuens.py: line.strip().split('\t'))
Parts(variant, line) == SplitFrom(line, 0, variant # "iTuens")

\* the lines a pass goes on with: stripped, not blank (dcm.py, walmart.py:
\* "if not line: continue"), and of exactly 3 parts
HasThreeParts(variant, raw) ==
  LET line == strip(raw)
  IN  /\ (variant # "iTuens" => line # <<>>)
      /\ Len(Parts(variant, line)) = 3

\* a first pass that looks at the left text only
FieldsOfLine_leftOnly(variant, raw) ==
  Keys(robust_parse_col_val(variant, Parts(variant, strip(raw))[1]))

\* all_fields.update(robust_parse_col_val(left).keys())
\* all_fields.update(robust_parse_col_val(right).keys())
FieldsOfLine(variant, raw) ==
  LET parts == Parts(variant, strip(raw))
  IN  Keys(robust_parse_col_val(variant, parts[1])) \cup
      Keys(robust_parse_col_val(variant, parts[2]))

\* the code point of a character
CodeOf(c) ==
  CASE c \in DigitChars -> 47 + (CHOOSE d \in 1..10 :
                                   <<"0","1","2","3","4","5","6","7","8","9">>[d] = c)
    [] c \in UpperChars -> 64 + (CHOOSE i \in DOMAIN UpperSeq : UpperSeq[i] = c)
    [] c \in LowerChars -> 96 + (CHOOSE i \in DOMAIN LowerSeq : LowerSeq[i] = c)
    [] c = "\t" -> 9
    [] c = " "  -> 32
    [] c = "\"" -> 34
    [] c = ","  -> 44
    [] c = "-"  -> 45
    [] c = ":"  -> 58
    [] c = ";"  -> 59
    [] c = "@"  -> 64
    [] c = "_"  -> 95
    [] c = "|"  -> 124

\* a < b for two str: at the first offset where they differ a has the smaller
\* code point, or a is a proper prefix of b
StrLess(a, b) ==
  \E k \in 1..(Len(a) + 1) :
    /\ k <= Len(b)
    /\ \A j \in 1..(k - 1) : a[j] = b[j]
    /\ (k = Len(a) + 1 \/ CodeOf(a[k]) < CodeOf(b[k]))

\* sorted(S) for a set of str
RECURSIVE sorted(_)
sorted(S) ==
  IF S = {} THEN <<>>
  ELSE LET m == CHOOSE x \in S : \A y \in S \ {x} : StrLess(x, y)
       IN  <<m>> \o sorted(S \ {m})

\* [f for f in preferred_order if f in all_fields]
RECURSIVE FilterIn(_, _)
FilterIn(list, S) ==
  IF list = <<>> THEN <<>>
  ELSE (IF Head(list) \in S THEN <<Head(list)>> ELSE <<>>) \o
       FilterIn(Tail(list), S)

Range(list) == {list[k] : k \in DOMAIN list}

\* an ordering that keeps the preferred names that were not discovered
OrderedFields_unfiltered(variant, preferred_order, all_fields) ==
  IF variant # "iTuens" /\ preferred_order.given /\ preferred_order.list # <<>>
  THEN preferred_order.list \o sorted(all_fields \ Range(preferred_order.list))
  ELSE sorted(all_fields)

\* an ordering whose rest is all of all_fields, the preferred ones once more
OrderedFields_restNotFiltered(variant, preferred_order, all_fields) ==
  IF variant # "iTuens" /\ preferred_order.given /\ preferred_order.list # <<>>
  THEN FilterIn(preferred_order.list, all_fields) \o sorted(all_fields)
  ELSE sorted(all_fields)

\* an ordering that forgets the fields that are not in preferred_order
OrderedFields_preferredOnly(variant, preferred_order, all_fields) ==
  IF variant # "iTuens" /\ preferred_order.given /\ preferred_order.list # <<>>
  THEN FilterIn(preferred_order.list, all_fields)
  ELSE sorted(all_fields)

\* dcm.py, walmart.py:
\*   if preferred_order:
\*       preferred = [f for f in preferred_order if f in all_fields]
\*       the_rest = sorted(f for f in all_fields if f not in preferred)
\*       ordered_fields = preferred + the_rest
\*   else:
\*       ordered_fields = sorted(all_fields)
\* iTuens.py, which has no preferred_order: all_fields = sorted(all_fields)
OrderedFields(variant, preferred_order, all_fields) ==
  IF variant # "iTuens" /\ preferred_order.given /\ preferred_order.list # <<>>
  THEN LET preferred == FilterIn(preferred_order.list, all_fields)
           the_rest == sorted(all_fields \ Range(preferred))
       IN  preferred \o the_rest
  ELSE sorted(all_fields)

\* int(label) succeeds: optional whitespace around an optional sign and
\* decimal digits, single underscores allowed between digits
IsIntText(s) ==
  LET t == strip(s)
      d == IF t # <<>> /\ t[1] \in {"+", "-"} THEN Tail(t) ELSE t
  IN  /\ d # <<>>
      /\ \A k \in DOMAIN d : d[k] \in DigitChars \cup {"_"}
      /\ d[1] # "_" /\ d[Len(d)] # "_"
      /\ \A k \in 1..(Len(d) - 1) : ~(d[k] = "_" /\ d[k + 1] = "_")

RECURSIVE DigitsValue(_, _)
DigitsValue(d, acc) ==
  IF d = <<>> THEN acc
  ELSE IF Head(d) = "_" THEN DigitsValue(Tail(d), acc)
       ELSE DigitsValue(Tail(d), 10 * acc + CodeOf(Head(d)) - 48)

\* int(label)
IntOf(s) ==
  LET t == strip(s)
  IN  IF t[1] = "-" THEN 0 - DigitsValue(Tail(t), 0)
      ELSE IF t[1] = "+" THEN DigitsValue(Tail(t), 0)
      ELSE DigitsValue(t, 0)

LEFT == <<"l","e","f","t">>

RIGHT == <<"r","i","g","h","t">>

\* f'{side}_{field}'
ColName(side, field) == side \o <<"_">> \o field

\* for field in ordered_fields:
\*     row[f'left_{field}']  = left_fields.get(field, "")
\*     row[f'right_{field}'] = right_fields.get(field, "")
RECURSIVE CellsFrom(_, _, _, _)
CellsFrom(fields, left_fields, right_fields, cells) ==
  IF fields = <<>> THEN cells
  ELSE CellsFrom(Tail(fields), left_fields, right_fields,
         DictSet(DictSet(cells, ColName(LEFT, Head(fields)),
                                DictGet(left_fields, Head(fields))),
                 ColName(RIGHT, Head(fields)),
                 DictGet(right_fields, Head(fields))))

\* a row whose right columns are filled from the left text
MakeRow_rightFromLeft(variant, row_id, parts, ordered_fields) ==
  [id    |-> row_id,
   label |-> IntOf(parts[3]),
   cells |-> CellsFrom(ordered_fields,
                       robust_parse_col_val(variant, parts[1]),
                       robust_parse_col_val(variant, parts[1]), <<>>)]

\* row = {'id': row_id, 'label': label} and its field columns
MakeRow(variant, row_id, parts, ordered_fields) ==
  [id    |-> row_id,
   label |-> IntOf(parts[3]),
   cells |-> CellsFrom(ordered_fields,
                       robust_parse_col_val(variant, parts[1]),
                       robust_parse_col_val(variant, parts[2]), <<>>)]

\* the last four consecutive digits of v, "" if there are none
YearOf_lastMatch(v) ==
  LET S == {k \in 0..(Len(v) - 4) :
              \A j \in 1..4 : v[k + j] \in DigitChars}
  IN  IF S = {} THEN <<>>
      ELSE LET k == CHOOSE a \in S : \A b \in S : b <= a
           IN  Slice(v, k, k + 4)

\* .str.extract(r'(\d{4})', expand=False).fillna(""): the first four
\* consecutive digits of v, "" if there are none
YearOf(v) ==
  LET S == {k \in 0..(Len(v) - 4) :
              \A j \in 1..4 : v[k + j] \in DigitChars}
  IN  IF S = {} THEN <<>>
      ELSE LET k == CHOOSE a \in S : \A b \in S : a <= b
           IN  Slice(v, k, k + 4)

\* dcm.py: for side in ('left', 'right'): col = f'{side}_year';
\*         if col in df.columns: df[col] = ... the extracted year
YearFixed(variant, cells) ==
  IF variant # "dcm" THEN cells
  ELSE [k \in DOMAIN cells |->
          IF cells[k].key \in {ColName(LEFT, <<"y","e","a","r">>),
                               ColName(RIGHT, <<"y","e","a","r">>)}
          THEN [key |-> cells[k].key, val |-> YearOf(cells[k].val)]
          ELSE cells[k]]

\* df = pd.DataFrame(data), then the year columns: the columns are those of
\* the rows' dicts, and there are none when data is empty
DataFrame(variant, data) ==
  [columns |-> IF data = <<>> THEN <<>>
               ELSE <<<<"i","d">>, <<"l","a","b","e","l">>>> \o
                    [k \in DOMAIN data[1].cells |-> data[1].cells[k].key],
   rows    |-> [r \in DOMAIN data |->
                  [id    |-> data[r].id,
                   label |-> data[r].label,
                   cells |-> YearFixed(variant, data[r].cells)]]]

\* a to_csv called with csv.QUOTE_ALL: every cell is quoted
to_csv_quoteAll(variant, df) ==
  [header |-> [k \in DOMAIN df.columns |->
                 [text |-> df.columns[k], quoted |-> TRUE]],
   rows   |-> [r \in DOMAIN df.rows |->
                 <<[num |-> df.rows[r].id, quoted |-> TRUE],
                   [num |-> df.rows[r].label, quoted |-> TRUE]>> \o
                 [k \in DOMAIN df.rows[r].cells |->
                    [text |-> df.rows[r].cells[k].val, quoted |-> TRUE]]]]

\* df.to_csv(output_file, index=False, quoting=...): what is written, each
\* cell with whether it is quoted.  dcm.py, iTuens.py and computer.py pass
\* csv.QUOTE_NONNUMERIC, walmart.py passes csv.QUOTE_NONE.
to_csv(variant, df) ==
  LET q == variant # "walmart"
  IN  [header |-> [k \in DOMAIN df.columns |->
                     [text |-> df.columns[k], quoted |-> q]],
       rows   |-> [r \in DOMAIN df.rows |->
                     <<[num |-> df.rows[r].id, quoted |-> FALSE],
                       [num |-> df.rows[r].label, quoted |-> FALSE]>> \o
                     [k \in DOMAIN df.rows[r].cells |->
                        [text |-> df.rows[r].cells[k].val, quoted |-> q]]]]

(***************************************************************************)
(* computer.py: the pure steps of ditto_to_deepmatcher.                    *)
(***************************************************************************)
\* lines = [line.strip().split('\t') for line in f.readlines()]
DittoParts(raw) == SplitFrom(strip(raw), 0, FALSE)

\* if not parts or len(parts) < 3: the line is reported and skipped
DittoSkips(parts) == parts = <<>> \/ Len(parts) < 3

TITLE_LEFT == <<"t","i","t","l","e","_","l","e","f","t">>

TITLE_RIGHT == <<"t","i","t","l","e","_","r","i","g","h","t">>

\* record = {'id': row_id, 'label': int(label.strip()),
\*           'title_left': title_left, 'title_right': title_right}
DittoRecord(row_id, parts) ==
  [id    |-> row_id,
   label |-> IntOf(strip(parts[3])),
   cells |-> <<[key |-> TITLE_LEFT, val |-> extract_title(parts[1])],
               [key |-> TITLE_RIGHT, val |-> extract_title(parts[2])]>>]

\* df = pd.DataFrame(deepmatcher_data,
\*                   columns=['id', 'label', 'title_left', 'title_right'])
DittoDataFrame(deepmatcher_data) ==
  [columns |-> <<<<"i","d">>, <<"l","a","b","e","l">>, TITLE_LEFT, TITLE_RIGHT>>,
   rows    |-> deepmatcher_data]

(***************************************************************************)
(* Input texts: every concatenation of at most MaxChunks chunks, and the   *)
(* example texts of the documentation.                                     *)
(***************************************************************************)
MaxChunks == 3

Chunks ==
  << <<"C","O","L"," ","t","i","t","l","e"," ","V","A","L">>,
     <<"C","O","L"," ","T","i","t","l","e"," ","V","A","L">>,
     <<"C","O","L"," ","b"," ","V","A","L">>,
     <<"c","o","l"," ","b"," ","v","a","l">>,
     <<"C","O","L">>,
     <<"V","A","L">>,
     <<" ">>,
     <<" ","\t">>,
     <<"x">>,
     <<";">>,
     <<"-">> >>

RECURSIVE Concat(_)
Concat(cs) == IF cs = <<>> THEN <<>> ELSE Chunks[Head(cs)] \o Concat(Tail(cs))

ChunkTexts ==
  {Concat(cs) : cs \in UNION {[1..n -> DOMAIN Chunks] : n \in 0..MaxChunks}}

Examples ==
  {
     \* COL model VAL X COL edition
     <<"C","O","L"," ","m","o","d","e","l"," ","V","A","L"," ","X"," ","C",
       "O","L"," ","e","d","i","t","i","o","n">>,
     \* COL brand VAL Acme COL model VAL X COLLECTORS EDITION
     <<"C","O","L"," ","b","r","a","n","d"," ","V","A","L"," ","A","c","m",
       "e"," ","C","O","L"," ","m","o","d","e","l"," ","V","A","L"," ","X",
       " ","C","O","L","L","E","C","T","O","R","S"," ","E","D","I","T","I",
       "O","N">>,
     \* COL title VAL Has COLORFUL Cover COL year VAL 2007
     <<"C","O","L"," ","t","i","t","l","e"," ","V","A","L"," ","H","a","s",
       " ","C","O","L","O","R","F","U","L"," ","C","o","v","e","r"," ","C",
       "O","L"," ","y","e","a","r"," ","V","A","L"," ","2","0","0","7">>,
     \* COL title VAL PROTOCOL x VALUE
     <<"C","O","L"," ","t","i","t","l","e"," ","V","A","L"," ","P","R","O",
       "T","O","C","O","L"," ","x"," ","V","A","L","U","E">>,
     \* COL Title VAL a COL title VAL b
     <<"C","O","L"," ","T","i","t","l","e"," ","V","A","L"," ","a"," ","C",
       "O","L"," ","t","i","t","l","e"," ","V","A","L"," ","b">>,
     \* COL a VAL 1 COL b VAL 2 COL a VAL 3
     <<"C","O","L"," ","a"," ","V","A","L"," ","1"," ","C","O","L"," ","b",
       " ","V","A","L"," ","2"," ","C","O","L"," ","a"," ","V","A","L"," ","3">>,
     \* see COL a VAL 1 ; COL b VAL 2 |
     <<"s","e","e"," ","C","O","L"," ","a"," ","V","A","L"," ","1"," ",";",
       " ","C","O","L"," ","b"," ","V","A","L"," ","2"," ","|">>,
     \* COL title VAL Big COL thing
     <<"C","O","L"," ","t","i","t","l","e"," ","V","A","L"," ","B","i","g",
       " ","C","O","L"," ","t","h","i","n","g">>
  }

Texts == ChunkTexts \cup Examples

(***************************************************************************)
(* Input files: every list of at most MaxLines lines of InputLines (each   *)
(* line as f.readlines() gives it, with its newline), and the values of    *)
(* preferred_order.                                                        *)
(***************************************************************************)
MaxLines == 3

InputLines ==
  {
     \* COL title VAL t COL year VAL old<TAB>COL year VAL in 2007 1999<TAB>1:
     \* a year without digits and one with two groups of them, label 1
     <<"C","O","L"," ","t","i","t","l","e"," ","V","A","L"," ","t"," ",
       "C","O","L"," ","y","e","a","r"," ","V","A","L"," ","o","l","d","\t",
       "C","O","L"," ","y","e","a","r"," ","V","A","L"," ","i","n"," ","2",
       "0","0","7"," ","1","9","9","9","\t","1","\n">>,
     \* COL brand VAL b<TAB>x<TAB>0: no field in the right text
     <<"C","O","L"," ","b","r","a","n","d"," ","V","A","L"," ","b","\t",
       "x","\t","0","\n">>,
     \* COL venue VAL v<TAB>COL title VAL t<TAB>yes: the label is not an integer
     <<"C","O","L"," ","v","e","n","u","e"," ","V","A","L"," ","v","\t",
       "C","O","L"," ","t","i","t","l","e"," ","V","A","L"," ","t","\t",
       "y","e","s","\n">>,
     \* COL isbn VAL 1<TAB>x<TAB>1<TAB>0: four parts
     <<"C","O","L"," ","i","s","b","n"," ","V","A","L"," ","1","\t","x",
       "\t","1","\t","0","\n">>,
     \* (blank): a blank line
     <<"\n">>,
     \* <TAB>COL title VAL t<TAB>1: an empty left text, label 1
     <<"\t","C","O","L"," ","t","i","t","l","e"," ","V","A","L"," ","t",
       "\t","1","\n">>
  }

Files == UNION {[1..n -> InputLines] : n \in 0..MaxLines}

\* preferred_order=None
NoPreferredOrder == [given |-> FALSE, list |-> <<>>]

PreferredOrders ==
  { NoPreferredOrder,
    \* ['title', 'year']
    [given |-> TRUE,
     list |-> << <<"t","i","t","l","e">>, <<"y","e","a","r">> >>] }

(***************************************************************************)
(* State.                                                                  *)
(***************************************************************************)
VARIABLES
  text,      \* the argument of the call
  called,    \* "none", or the file whose function was called
  matches,   \* robust_parse_col_val: list(FIELD_RE.finditer(text));
             \* extract_title: the match of re.search, if any
  spans,     \* robust_parse_col_val: [start, end] of text[start:end], per match
  record,    \* robust_parse_col_val: the returned dict
  title,     \* extract_title: the returned str
  variant,        \* the file the running converter is of
  lines,          \* parse_tabbed_file: the argument lines
  preferred_order,\* parse_tabbed_file: the argument preferred_order
  pc,             \* parse_tabbed_file: "pass1", "pass2", "done";
                  \* ditto_to_deepmatcher: "loop", "raised", "saved"
  idx,            \* the line the running loop is at, from 1
  all_fields,     \* the set all_fields
  ordered_fields, \* the list ordered_fields (iTuens.py: all_fields, sorted)
  data,           \* the list data of row dicts
  row_id,         \* row_id
  log,            \* what was printed about skipped lines
  df,             \* the DataFrame returned
  csv,            \* the file written by to_csv
  visited,        \* rows built in any order: the lines already gone through
  input_csv,      \* process_dataset: the rows of input_csv, as read_csv gives them
  chat,           \* process_dataset: what the chat endpoint did, per call
  all_rows,       \* process_dataset: the list all_rows
  enriched_df     \* process_dataset: the rows written to output_csv

tokvars == <<text, called, matches, spans, record, title>>

filevars ==
  <<variant, lines, preferred_order, pc, idx, all_fields, ordered_fields,
    data, row_id, log, df, csv>>

llmvars == <<input_csv, chat, all_rows, enriched_df>>

vars == <<tokvars, filevars, visited, llmvars>>

NoFrame == [columns |-> <<>>, rows |-> <<>>]

NoCsv == [header |-> <<>>, rows |-> <<>>]

\* no call of parse_tabbed_file
FileIdle ==
  /\ variant = "none"
  /\ lines = <<>>
  /\ preferred_order = NoPreferredOrder
  /\ pc = "idle"
  /\ idx = 0
  /\ all_fields = {}
  /\ ordered_fields = <<>>
  /\ data = <<>>
  /\ row_id = 0
  /\ log = <<>>
  /\ df = NoFrame
  /\ csv = NoCsv

\* no call of process_dataset, and no line gone through out of order
LlmIdle ==
  /\ visited = {}
  /\ input_csv = <<>>
  /\ chat = <<>>
  /\ all_rows = <<>>
  /\ enriched_df = <<>>

\* no call of robust_parse_col_val or extract_title on a text of its own
TokIdle ==
  /\ text = <<>>
  /\ called = "none"
  /\ matches = <<>>
  /\ spans = <<>>
  /\ record = <<>>
  /\ title = <<>>

TokInit ==
  /\ text \in Texts
  /\ called = "none"
  /\ matches = <<>>
  /\ spans = <<>>
  /\ record = <<>>
  /\ title = <<>>
  /\ FileIdle
  /\ LlmIdle

Call_robust_parse_col_val(v) ==
  /\ called = "none"
  /\ called' = v
  /\ LET r == ParseCall(v, text)
     IN  matches' = r.matches /\ spans' = r.spans /\ record' = r.record
  /\ UNCHANGED <<text, title, filevars, visited, llmvars>>

Call_extract_title ==
  /\ called = "none"
  /\ called' = "computer"
  /\ LET m == SearchFrom(text, 0)
     IN  matches' = IF m # NoMatch THEN <<m>> ELSE <<>>
  /\ title' = extract_title(text)
  /\ UNCHANGED <<text, spans, record, filevars, visited, llmvars>>

TokNext ==
  \/ \E v \in Variants : Call_robust_parse_col_val(v)
  \/ Call_extract_title

TokSpec == TokInit /\ [][TokNext]_vars

(***************************************************************************)
(* The converters as their steps: parse_tabbed_file(lines, output_file,    *)
(* preferred_order) of dcm.py, walmart.py and iTuens.py, and               *)
(* ditto_to_deepmatcher(input_file, output_file) of computer.py, whose     *)
(* lines are those of input_file.                                          *)
(***************************************************************************)
\* the files with a converter
Converters == Variants \cup {"computer"}

\* data = []; row_id = 0; all_fields = set()
\* computer.py: deepmatcher_data = []; row_id = 0
Init ==
  /\ TokIdle
  /\ LlmIdle
  /\ variant \in Converters
  /\ lines \in Files
  /\ preferred_order \in
       (IF variant \in {"dcm", "walmart"} THEN PreferredOrders
        ELSE {NoPreferredOrder})
  /\ pc = IF variant = "computer" THEN "loop" ELSE "pass1"
  /\ idx = 1
  /\ all_fields = {}
  /\ ordered_fields = <<>>
  /\ data = <<>>
  /\ row_id = 0
  /\ log = <<>>
  /\ df = NoFrame
  /\ csv = NoCsv

\* a first pass that leaves out the lines whose label is not an integer
Pass1Step_validLabelsOnly ==
  /\ pc = "pass1"
  /\ idx <= Len(lines)
  /\ all_fields' = IF /\ HasThreeParts(variant, lines[idx])
                      /\ IsIntText(Parts(variant, strip(lines[idx]))[3])
                   THEN all_fields \cup FieldsOfLine(variant, lines[idx])
                   ELSE all_fields
  /\ idx' = idx + 1
  /\ UNCHANGED <<tokvars, llmvars, visited, variant, lines, preferred_order, pc,
                 ordered_fields, data, row_id, log, df, csv>>

\* one iteration of "for raw in lines" of the first pass
Pass1Step ==
  /\ pc = "pass1"
  /\ idx <= Len(lines)
  /\ all_fields' = IF HasThreeParts(variant, lines[idx])
                   THEN all_fields \cup FieldsOfLine(variant, lines[idx])
                   ELSE all_fields
  /\ idx' = idx + 1
  /\ UNCHANGED <<tokvars, llmvars, visited, variant, lines, preferred_order, pc,
                 ordered_fields, data, row_id, log, df, csv>>

\* a first loop that stops after its first line
OrderFields_afterFirstLine ==
  /\ pc = "pass1"
  /\ idx > 1
  /\ ordered_fields' = OrderedFields(variant, preferred_order, all_fields)
  /\ pc' = "pass2"
  /\ idx' = 1
  /\ UNCHANGED <<tokvars, llmvars, visited, variant, lines, preferred_order, all_fields,
                 data, row_id, log, df, csv>>

\* the first loop is over: the field order is fixed
OrderFields ==
  /\ pc = "pass1"
  /\ idx > Len(lines)
  /\ ordered_fields' = OrderedFields(variant, preferred_order, all_fields)
  /\ pc' = "pass2"
  /\ idx' = 1
  /\ UNCHANGED <<tokvars, llmvars, visited, variant, lines, preferred_order, all_fields,
                 data, row_id, log, df, csv>>

\* second pass, "if not line: continue" of dcm.py and walmart.py
Pass2Blank ==
  /\ pc = "pass2"
  /\ idx <= Len(lines)
  /\ variant # "iTuens"
  /\ strip(lines[idx]) = <<>>
  /\ idx' = idx + 1
  /\ UNCHANGED <<tokvars, llmvars, visited, variant, lines, preferred_order, pc, all_fields,
                 ordered_fields, data, row_id, log, df, csv>>

\* a second pass in which a malformed line takes an id
Pass2Malformed_consumesId ==
  /\ pc = "pass2"
  /\ idx <= Len(lines)
  /\ (variant # "iTuens" => strip(lines[idx]) # <<>>)
  /\ Len(Parts(variant, strip(lines[idx]))) # 3
  /\ log' = Append(log, [line |-> idx, why |-> "malformed"])
  /\ row_id' = row_id + 1
  /\ idx' = idx + 1
  /\ UNCHANGED <<tokvars, llmvars, visited, variant, lines, preferred_order, pc, all_fields,
                 ordered_fields, data, df, csv>>

\* second pass, "if len(parts) != 3": the line is reported and skipped
Pass2Malformed ==
  /\ pc = "pass2"
  /\ idx <= Len(lines)
  /\ (variant # "iTuens" => strip(lines[idx]) # <<>>)
  /\ Len(Parts(variant, strip(lines[idx]))) # 3
  /\ log' = Append(log, [line |-> idx, why |-> "malformed"])
  /\ idx' = idx + 1
  /\ UNCHANGED <<tokvars, llmvars, visited, variant, lines, preferred_order, pc, all_fields,
                 ordered_fields, data, row_id, df, csv>>

\* a second pass that reports the invalid label and keeps the line, label 0
Pass2InvalidLabel_keepsRow ==
  /\ pc = "pass2"
  /\ idx <= Len(lines)
  /\ HasThreeParts(variant, lines[idx])
  /\ ~IsIntText(Parts(variant, strip(lines[idx]))[3])
  /\ log' = Append(log, [line |-> idx, why |-> "invalid label"])
  /\ data' = Append(data, [id |-> row_id, label |-> 0, cells |-> <<>>])
  /\ row_id' = row_id + 1
  /\ idx' = idx + 1
  /\ UNCHANGED <<tokvars, llmvars, visited, variant, lines, preferred_order, pc, all_fields,
                 ordered_fields, df, csv>>

\* second pass, int(label) raises ValueError: the line is reported and skipped
Pass2InvalidLabel ==
  /\ pc = "pass2"
  /\ idx <= Len(lines)
  /\ HasThreeParts(variant, lines[idx])
  /\ ~IsIntText(Parts(variant, strip(lines[idx]))[3])
  /\ log' = Append(log, [line |-> idx, why |-> "invalid label"])
  /\ idx' = idx + 1
  /\ UNCHANGED <<tokvars, llmvars, visited, variant, lines, preferred_order, pc, all_fields,
                 ordered_fields, data, row_id, df, csv>>

\* second pass, the line gives a row: data.append(row); row_id += 1
Pass2Row ==
  /\ pc = "pass2"
  /\ idx <= Len(lines)
  /\ HasThreeParts(variant, lines[idx])
  /\ IsIntText(Parts(variant, strip(lines[idx]))[3])
  /\ data' = Append(data, MakeRow(variant, row_id,
                                  Parts(variant, strip(lines[idx])),
                                  ordered_fields))
  /\ row_id' = row_id + 1
  /\ idx' = idx + 1
  /\ UNCHANGED <<tokvars, llmvars, visited, variant, lines, preferred_order, pc, all_fields,
                 ordered_fields, log, df, csv>>

\* the second loop is over: df = pd.DataFrame(data), the year columns of
\* dcm.py, df.to_csv(...), return df
Finish ==
  /\ pc = "pass2"
  /\ idx > Len(lines)
  /\ df' = DataFrame(variant, data)
  /\ csv' = to_csv(variant, df')
  /\ pc' = "done"
  /\ UNCHANGED <<tokvars, llmvars, visited, variant, lines, preferred_order, idx, all_fields,
                 ordered_fields, data, row_id, log>>

\* computer.py, "if not parts or len(parts) < 3": the line is reported and
\* skipped
DittoSkip ==
  /\ pc = "loop"
  /\ idx <= Len(lines)
  /\ DittoSkips(DittoParts(lines[idx]))
  /\ log' = Append(log, [line |-> idx, why |-> "invalid line"])
  /\ idx' = idx + 1
  /\ UNCHANGED <<tokvars, llmvars, visited, variant, lines, preferred_order, pc, all_fields,
                 ordered_fields, data, row_id, df, csv>>

\* computer.py, int(label.strip()) raises ValueError, which nothing in
\* ditto_to_deepmatcher catches: the call ends, no DataFrame, no file
DittoRaise ==
  /\ pc = "loop"
  /\ idx <= Len(lines)
  /\ ~DittoSkips(DittoParts(lines[idx]))
  /\ ~IsIntText(DittoParts(lines[idx])[3])
  /\ pc' = "raised"
  /\ UNCHANGED <<tokvars, llmvars, visited, variant, lines, preferred_order, idx, all_fields,
                 ordered_fields, data, row_id, log, df, csv>>

\* computer.py, the line gives a record: deepmatcher_data.append(record);
\* row_id += 1
DittoRow ==
  /\ pc = "loop"
  /\ idx <= Len(lines)
  /\ ~DittoSkips(DittoParts(lines[idx]))
  /\ IsIntText(DittoParts(lines[idx])[3])
  /\ data' = Append(data, DittoRecord(row_id, DittoParts(lines[idx])))
  /\ row_id' = row_id + 1
  /\ idx' = idx + 1
  /\ UNCHANGED <<tokvars, llmvars, visited, variant, lines, preferred_order, pc, all_fields,
                 ordered_fields, log, df, csv>>

\* computer.py, the loop is over: df = pd.DataFrame(..., columns=[...]),
\* df.to_csv(...), return df
DittoFinish ==
  /\ pc = "loop"
  /\ idx > Len(lines)
  /\ df' = DittoDataFrame(data)
  /\ csv' = to_csv(variant, df')
  /\ pc' = "saved"
  /\ UNCHANGED <<tokvars, llmvars, visited, variant, lines, preferred_order, idx, all_fields,
                 ordered_fields, data, row_id, log>>

Next ==
  \/ Pass1Step
  \/ OrderFields
  \/ Pass2Blank
  \/ Pass2Malformed
  \/ Pass2InvalidLabel
  \/ Pass2Row
  \/ Finish
  \/ DittoSkip
  \/ DittoRaise
  \/ DittoRow
  \/ DittoFinish

Spec == Init /\ [][Next]_vars

(***************************************************************************)
(* Notions the properties are stated with, written from the documentation  *)
(* of the record format and independent of the matching code above.        *)
(***************************************************************************)
\* the word w (compared ignoring case) stands at offsets [k, k + Len(w))
IsWordAt(txt, k, w) ==
  /\ k >= 0
  /\ k + Len(w) <= Len(txt)
  /\ \A j \in 1..Len(w) : lower_char(txt[k + j]) = lower_char(w[j])

\* no letter, digit or underscore touches the span [s, e): the span is not
\* part of a longer word
IsStandalone(txt, s, e) ==
  /\ (s = 0 \/ txt[s] \notin WordChars)
  /\ (e = Len(txt) \/ txt[e + 1] \notin WordChars)

\* [s, e) is a complete triple: the standalone word COL, whitespace, a field
\* name of letters, digits and underscores, whitespace, the standalone word VAL
IsTriple(txt, s, e) ==
  /\ IsWordAt(txt, s, COL)
  /\ e <= Len(txt)
  /\ IsWordAt(txt, e - 3, VAL)
  /\ IsStandalone(txt, s, e)
  /\ \E b \in (s + 4)..(e - 5) :
       /\ \A k \in (s + 4)..b : txt[k] \in SpaceChars
       /\ \E c \in (b + 1)..(e - 4) :
            /\ \A k \in (b + 1)..c : txt[k] \in NameChars
            /\ \A k \in (c + 1)..(e - 3) : txt[k] \in SpaceChars

\* a complete triple starts at offset s
IsTripleAt(txt, s) ==
  /\ IsWordAt(txt, s, COL)
  /\ \E e \in (s + 9)..Len(txt) : IsTriple(txt, s, e)

\* the first offset >= from where a complete triple starts; the end of the
\* text if there is none
NextTripleStart(txt, from) ==
  LET S == {s \in from..(Len(txt) - 1) : IsTripleAt(txt, s)}
  IN  IF S = {} THEN Len(txt) ELSE CHOOSE s \in S : \A o \in S : s <= o

\* the word w occurs somewhere in s
Contains(s, w) == \E k \in 0..(Len(s) - Len(w)) : Slice(s, k, k + Len(w)) = w

\* the matches whose key is that of match i
SameKey(i) ==
  {j \in DOMAIN matches :
     KeyOf(called, matches, j, text) = KeyOf(called, matches, i, text)}

IsFirst(i) == \A j \in SameKey(i) : i <= j

IsLast(i) == \A j \in SameKey(i) : j <= i

(***************************************************************************)
(* C1.  robust_parse_col_val of dcm.py and walmart.py ends a value only at *)
(* a complete COL <name> VAL triple: every match is a complete triple,     *)
(* every value span ends at the first complete triple after its start (or  *)
(* at the end of the text), so a standalone COL or VAL that is not part of *)
(* a complete triple stays in the value, and the only keys are the names   *)
(* of the triples.                                                         *)
(***************************************************************************)
C1_ValueEndsOnlyAtTriple ==
  called \in {"dcm", "walmart"} =>
    /\ \A i \in DOMAIN matches :
         IsTriple(text, matches[i].start, matches[i].end)
    /\ \A i \in DOMAIN spans :
         spans[i].end = NextTripleStart(text, spans[i].start)
    /\ \A i \in DOMAIN spans :
         IsLast(i) =>
           DictGet(record, KeyOf(called, matches, i, text)) =
             StripBy(sub_spaces(strip(
               Slice(text, matches[i].end,
                     NextTripleStart(text, matches[i].end)))), "strip")
    /\ Keys(record) =
         {lower(Slice(text, matches[i].g1s, matches[i].g1e)) :
            i \in DOMAIN matches}

\* a standalone COL that starts no triple lies in a value span and is in the
\* value returned for the only key
C1_Witness ==
  /\ called = "dcm"
  /\ Len(record) = 1
  /\ Contains(record[1].val, COL)
  /\ \E i \in DOMAIN spans :
       \E k \in spans[i].start..(spans[i].end - 3) :
         /\ IsWordAt(text, k, COL)
         /\ IsStandalone(text, k, k + 3)
         /\ ~IsTripleAt(text, k)

(***************************************************************************)
(* C2.  extract_title returns the title up to the next complete triple or  *)
(* the end of the string: the value it returns ends only where, after      *)
(* whitespace, the text ends or a complete triple starts; a bare COL does  *)
(* not end it.                                                             *)
(***************************************************************************)
C2_TitleEndsOnlyAtTriple ==
  (called = "computer" /\ matches # <<>>) =>
    LET h == RunEnd(text, matches[1].g1e, "space")
    IN  h = Len(text) \/ IsTripleAt(text, h)

(***************************************************************************)
(* C3.  In every variant of robust_parse_col_val the letters COL or VAL    *)
(* inside a longer word are never taken as a marker: every match is a      *)
(* standalone COL ... VAL.                                                 *)
(***************************************************************************)
C3_NoMarkerInsideWord ==
  called \in Variants =>
    \A i \in DOMAIN matches :
      IsStandalone(text, matches[i].start, matches[i].end)

(***************************************************************************)
(* C4.  For every match i the raw value is the text from immediately after *)
(* the VAL of match i to immediately before the COL of match i + 1 (to the *)
(* end of the text for the last match); the text before the first match is *)
(* in no value and no character is in two values.                          *)
(***************************************************************************)
C4_ValueSpans ==
  called \in Variants =>
    /\ Len(spans) = Len(matches)
    /\ \A i \in DOMAIN spans :
         /\ IsWordAt(text, spans[i].start - 3, VAL)
         /\ spans[i].start = matches[i].end
         /\ spans[i].start <= spans[i].end
         /\ IF i < Len(spans)
            THEN /\ spans[i].end = matches[i + 1].start
                 /\ IsWordAt(text, spans[i].end, COL)
                 /\ spans[i].end < spans[i + 1].start
            ELSE spans[i].end = Len(text)
    /\ \A i \in DOMAIN spans : matches[1].start < spans[i].start

\* two matches, text before the first one, and a value between them
C4_Witness ==
  /\ called \in Variants
  /\ Len(spans) >= 2
  /\ matches[1].start > 0
  /\ spans[1].start < spans[1].end

(***************************************************************************)
(* C5.  Every value of a Field Map, in every variant, has its whitespace   *)
(* runs collapsed to one space and neither begins nor ends with a space,   *)
(* pipe, semicolon, comma or colon.                                        *)
(***************************************************************************)
C5_ValuesNormalised ==
  called \in Variants =>
    \A k \in DOMAIN record :
      LET v == record[k].val
      IN  /\ \A j \in DOMAIN v : v[j] \in SpaceChars => v[j] = " "
          /\ \A j \in 1..(Len(v) - 1) : ~(v[j] = " " /\ v[j + 1] = " ")
          /\ v # <<>> => (v[1] \notin StripChars /\ v[Len(v)] \notin StripChars)

(***************************************************************************)
(* C6.  Every key of a Field Map, in every variant, is lowercased: no key  *)
(* holds an uppercase letter, and names that differ only in letter case    *)
(* give one key.                                                           *)
(***************************************************************************)
C6_KeysLowercased ==
  called \in Variants =>
    /\ \A k \in DOMAIN record :
         \A j \in DOMAIN record[k].key : record[k].key[j] \notin UpperChars
    /\ \A k, l \in DOMAIN record :
         lower(record[k].key) = lower(record[l].key) => k = l

(***************************************************************************)
(* C7.  When a field name occurs more than once in a text, the Field Map   *)
(* has one entry for it, with the value of the last occurrence, at the     *)
(* position of the first occurrence: the keys are in the order of their    *)
(* first occurrences.                                                      *)
(***************************************************************************)
C7_LastValueFirstPosition ==
  called \in Variants =>
    LET firsts == {i \in DOMAIN matches : IsFirst(i)}
    IN  /\ Len(record) = Cardinality(firsts)
        /\ \A i \in firsts :
             \* the entry of the key first seen at match i comes after the
             \* entries of the keys first seen before i
             LET pos == 1 + Cardinality({j \in firsts : j < i})
                 last == CHOOSE j \in SameKey(i) : IsLast(j)
             IN  /\ record[pos].key = KeyOf(called, matches, i, text)
                 /\ record[pos].val = ValOf(called, matches, last, text)

\* a name occurs twice with different values and another name in between
C7_Witness ==
  /\ called = "dcm"
  /\ \E i, j, k \in DOMAIN matches :
       /\ i < j /\ j < k
       /\ k \in SameKey(i)
       /\ j \notin SameKey(i)
       /\ ValOf(called, matches, i, text) # ValOf(called, matches, k, text)
       /\ record[1].val = ValOf(called, matches, k, text)

(***************************************************************************)
(* C8.  robust_parse_col_val returns the empty mapping when the text is    *)
(* empty or holds no complete COL <name> VAL triple.                       *)
(***************************************************************************)
C8_EmptyWithoutTriple ==
  (called \in Variants /\ NextTripleStart(text, 0) = Len(text)) =>
    record = <<>>

(***************************************************************************)
(* Notions for the properties of parse_tabbed_file.                        *)
(***************************************************************************)
\* the well-formed lines: those of exactly 3 tab-separated parts
WellFormed == {k \in DOMAIN lines : HasThreeParts(variant, lines[k])}

\* the Field Map of one side (1: left, 2: right) of line k
SideMap(k, side) ==
  robust_parse_col_val(variant, Parts(variant, strip(lines[k]))[side])

\* the field names of both sides of every well-formed line
Discovered ==
  UNION {Keys(SideMap(k, 1)) \cup Keys(SideMap(k, 2)) : k \in WellFormed}

\* the lines that give a row: well formed, with an integer label
Kept ==
  {k \in WellFormed : IsIntText(Parts(variant, strip(lines[k]))[3])}

\* the line that row r of data was built from
LineOfRow(r) ==
  LET K == Kept
  IN  CHOOSE k \in K : Cardinality({j \in K : j <= k}) = r

\* the lines that the rows of data were built from, in the order of the rows
RowLines ==
  LET K == Kept
  IN  [r \in 1..Cardinality(K) |->
         CHOOSE k \in K : Cardinality({j \in K : j <= k}) = r]

\* the sides (over all lines) whose Field Map has field f
SidesWith(f) ==
  {ks \in WellFormed \X {1, 2} : f \in Keys(SideMap(ks[1], ks[2]))}

\* a is before b in lexicographic order of code points
IsLexBefore(a, b) ==
  \/ (Len(a) < Len(b) /\ SubSeq(b, 1, Len(a)) = a)
  \/ \E k \in 1..Len(a) :
       /\ k <= Len(b)
       /\ SubSeq(a, 1, k - 1) = SubSeq(b, 1, k - 1)
       /\ CodeOf(a[k]) < CodeOf(b[k])

(***************************************************************************)
(* C9.  Schema completeness: when parse_tabbed_file returns, the schema is *)
(* the union of the field names of both sides of every well-formed line;   *)
(* every Output Row has the columns left_<f> and right_<f> of every such   *)
(* field f and no other, with '' where the side of the row's line has no   *)
(* f; so all rows have the same columns, and so has the DataFrame.         *)
(***************************************************************************)
C9_SchemaComplete ==
  pc = "done" =>
    \* D: the discovered fields; columns: their left_ and right_ columns;
    \* line[r]: the line of row r
    \A D \in {Discovered}, line \in {RowLines} :
      \A columns \in {{ColName(LEFT, f) : f \in D} \cup
                       {ColName(RIGHT, f) : f \in D}} :
        /\ all_fields = D
        /\ Range(ordered_fields) = D
        /\ \A r \in DOMAIN data :
             LET left_keys == Keys(SideMap(line[r], 1))
                 right_keys == Keys(SideMap(line[r], 2))
             IN  /\ Keys(data[r].cells) = columns
                 /\ \A f \in D \ left_keys :
                      DictGet(data[r].cells, ColName(LEFT, f)) = <<>>
                 /\ \A f \in D \ right_keys :
                      DictGet(data[r].cells, ColName(RIGHT, f)) = <<>>
                 /\ [k \in DOMAIN data[r].cells |-> data[r].cells[k].key] =
                      [k \in DOMAIN data[1].cells |-> data[1].cells[k].key]
        /\ Len(df.rows) = Len(data)
        /\ \A r \in DOMAIN df.rows : Keys(df.rows[r].cells) = columns

\* a field that is on one side of one line only is a column of two rows, and
\* '' on both sides of one of them
C9_Witness ==
  /\ pc = "done"
  /\ Len(data) >= 2
  /\ \E f \in Discovered :
       /\ Cardinality(SidesWith(f)) = 1
       /\ \E r \in DOMAIN data :
            /\ HasKey(data[r].cells, ColName(LEFT, f))
            /\ DictGet(data[r].cells, ColName(LEFT, f)) = <<>>
            /\ HasKey(data[r].cells, ColName(RIGHT, f))
            /\ DictGet(data[r].cells, ColName(RIGHT, f)) = <<>>

(***************************************************************************)
(* C10.  Schema order: with preferred_order given, the schema is the       *)
(* subsequence of preferred_order of the discovered fields, in the given   *)
(* order, followed by all other discovered fields in lexicographic order;  *)
(* without preferred_order it is all discovered fields in lexicographic    *)
(* order.                                                                  *)
(***************************************************************************)
C10_SchemaOrder ==
  pc \in {"pass2", "done"} =>
    LET IsDiscovered(f) == f \in all_fields
        head == IF preferred_order.given
                THEN SelectSeq(preferred_order.list, IsDiscovered)
                ELSE <<>>
        n == Len(ordered_fields) - Len(head)
        tail == SubSeq(ordered_fields, Len(head) + 1, Len(ordered_fields))
    IN  /\ n >= 0
        /\ SubSeq(ordered_fields, 1, Len(head)) = head
        /\ Range(tail) = all_fields \ Range(head)
        /\ \A k \in 1..(n - 1) : IsLexBefore(tail[k], tail[k + 1])

\* preferred ['title', 'year'] and discovered {'year', 'title', 'brand'} give
\* ['title', 'year', 'brand']
C10_Witness ==
  /\ pc = "done"
  /\ preferred_order.given
  /\ preferred_order.list = << <<"t","i","t","l","e">>, <<"y","e","a","r">> >>
  /\ all_fields = { <<"y","e","a","r">>, <<"t","i","t","l","e">>,
                    <<"b","r","a","n","d">> }
  /\ ordered_fields = << <<"t","i","t","l","e">>, <<"y","e","a","r">>,
                         <<"b","r","a","n","d">> >>


\* the column names of a row dict, in order
ColumnsOf(cells) == [k \in DOMAIN cells |-> cells[k].key]

\* the columns that the schema fields gives a row: left_<f>, right_<f> for
\* each field f of fields in order, a repeated field at its first place
RECURSIVE PairsOf(_)
PairsOf(fields) ==
  IF fields = <<>> THEN <<>>
  ELSE LET f == fields[Len(fields)]
           front == PairsOf(SubSeq(fields, 1, Len(fields) - 1))
       IN  IF \E k \in 1..(Len(fields) - 1) : fields[k] = f THEN front
           ELSE front \o <<ColName(LEFT, f), ColName(RIGHT, f)>>

(***************************************************************************)
(* C11.  Two-pass ordering: parse_tabbed_file builds no Output Row while   *)
(* the schema pass runs, the schema pass ends only when it has read every  *)
(* input line, and from then on the schema does not change: every row,     *)
(* from the first to the last, is built with the same schema.              *)
(***************************************************************************)
C11_SchemaBeforeRows ==
  [][(variant \in Variants) =>
      (/\ (pc = "pass1" => (data = <<>> /\ data' = <<>>))
       /\ ((pc = "pass1" /\ pc' # "pass1") => idx > Len(lines))
       /\ (pc \in {"pass2", "done"} =>
             (all_fields' = all_fields /\ ordered_fields' = ordered_fields))
       /\ (data' # data =>
             /\ pc = "pass2"
             /\ Len(data') = Len(data) + 1
             /\ ColumnsOf(data'[Len(data')].cells) = PairsOf(ordered_fields)
             /\ ColumnsOf(data'[1].cells) = PairsOf(ordered_fields)))]_vars

\* the first row, built from the first line, has the columns of a field that
\* only the last line has, and the last row has the same columns
C11_Witness ==
  /\ pc = "done"
  /\ Len(lines) >= 2
  /\ Len(data) = Len(lines)
  /\ ColumnsOf(data[1].cells) = ColumnsOf(data[Len(data)].cells)
  /\ \E f \in FieldsOfLine(variant, lines[Len(lines)]) :
       /\ f \notin FieldsOfLine(variant, lines[1])
       /\ HasKey(data[1].cells, ColName(LEFT, f))

\* the lines that are malformed: not of 3 tab-separated parts, the blank lines
\* among them
Malformed == DOMAIN lines \ WellFormed

\* the lines of 3 parts whose label is not an integer
InvalidLabel == WellFormed \ Kept

DittoKept == {k \in DOMAIN lines : ~DittoSkips(DittoParts(lines[k]))}

\* the lines before line idx that gave a row
KeptBefore ==
  {k \in 1..(idx - 1) :
     IF variant = "computer" THEN ~DittoSkips(DittoParts(lines[k]))
     ELSE /\ HasThreeParts(variant, lines[k])
          /\ IsIntText(Parts(variant, strip(lines[k]))[3])}

(***************************************************************************)
(* C13.  Id contiguity: at every point of the row loop of parse_tabbed_file *)
(* and of ditto_to_deepmatcher, row_id is the number of rows kept so far,  *)
(* which is the number of kept lines already read; the ids of the rows are *)
(* 0..N-1 in the order of the rows, in data and in the file written; so a  *)
(* skipped line takes no id.                                               *)
(***************************************************************************)
C13_IdsContiguous ==
  /\ row_id = Len(data)
  /\ \A r \in DOMAIN data : data[r].id = r - 1
  /\ pc \in {"pass2", "loop"} => row_id = Cardinality(KeptBefore)
  /\ pc \in {"done", "saved"} =>
       /\ Len(csv.rows) = row_id
       /\ \A r \in DOMAIN csv.rows : csv.rows[r][1].num = r - 1

\* a skipped line between two lines that give the rows 0 and 1
C13_Witness ==
  /\ pc \in {"done", "saved"}
  /\ Len(lines) = 3
  /\ 2 \in (IF variant = "computer" THEN DOMAIN lines \ DittoKept
             ELSE Malformed \cup InvalidLabel)
  /\ Len(csv.rows) = 2
  /\ csv.rows[2][1].num = 1

(***************************************************************************)
(* C14.  A line whose label is not an integer is not fatal in any          *)
(* converter: no converter ends by raising, and when a converter returns,  *)
(* the file is written with one row for every kept line, the lines after   *)
(* an invalid label among them, and with no row for the invalid line.      *)
(***************************************************************************)
C14_InvalidLabelNonFatal ==
  /\ pc # "raised"
  /\ pc \in {"done", "saved"} =>
       /\ idx = Len(lines) + 1
       /\ Len(csv.rows) = Cardinality(KeptBefore)
       /\ Len(csv.rows) = row_id

\* the number of occurrences of the character c in s
RECURSIVE CountOf(_, _)
CountOf(s, c) ==
  IF s = <<>> THEN 0
  ELSE (IF Head(s) = c THEN 1 ELSE 0) + CountOf(Tail(s), c)

\* the number of tab-separated parts of an input line
NumParts(raw) == 1 + CountOf(raw, "\t")

(***************************************************************************)
(* C15.  In every converter a line is processed only if it has exactly 3   *)
(* tab-separated parts: a step that adds a field name to the schema or a   *)
(* row to the output is a step on a line of exactly 3 parts, so a line     *)
(* with fewer or more parts gives neither.                                 *)
(***************************************************************************)
C15_OnlyThreeParts ==
  [][(data' # data \/ all_fields' # all_fields) =>
       (idx \in DOMAIN lines /\ NumParts(lines[idx]) = 3)]_vars

\* the tab-separated fields of an input line, as the file format gives them
RawParts(raw) == SplitFrom(raw, 0, FALSE)

\* the lines with three tab-separated fields and an integer label
Eligible ==
  {k \in DOMAIN lines :
     NumParts(lines[k]) = 3 /\ IsIntText(RawParts(lines[k])[3])}

\* the r-th line of Eligible
EligibleLine(r) ==
  CHOOSE k \in Eligible : Cardinality({j \in Eligible : j <= k}) = r

\* the text holds no complete triple
NoTriple(txt) == NextTripleStart(txt, 0) = Len(txt)

(***************************************************************************)
(* C16.  A side with no fields is not an error: when parse_tabbed_file     *)
(* returns, every input line with three tab-separated fields and an        *)
(* integer label has given an Output Row, and where the left (right) text  *)
(* of the line holds no triple, the empty text included, every left_<f>    *)
(* (right_<f>) of its row is ''.                                           *)
(***************************************************************************)
C16_EmptySideGivesRow ==
  (variant \in Variants /\ pc = "done") =>
    /\ Len(data) = Cardinality(Eligible)
    /\ \A r \in DOMAIN data :
         LET parts == RawParts(lines[EligibleLine(r)])
         IN  /\ NoTriple(parts[1]) =>
                  \A f \in Range(ordered_fields) :
                    DictGet(data[r].cells, ColName(LEFT, f)) = <<>>
             /\ NoTriple(parts[2]) =>
                  \A f \in Range(ordered_fields) :
                    DictGet(data[r].cells, ColName(RIGHT, f)) = <<>>

\* the value of field f in a Field Map, '' if f is not in it
ValueIn(map, f) ==
  IF \E i \in DOMAIN map : map[i].key = f
  THEN map[CHOOSE i \in DOMAIN map : map[i].key = f].val
  ELSE <<>>

HeaderOf(file) == [k \in DOMAIN file.header |-> file.header[k].text]

\* the schema of the running converter: ditto_to_deepmatcher has the one
\* field title
SchemaOf ==
  IF variant = "computer" THEN << <<"t","i","t","l","e">> >>
  ELSE ordered_fields

(***************************************************************************)
(* C18.  Output columns: when a converter has written its file, the header *)
(* is id, label, then left_<f>, right_<f> for each schema field f in       *)
(* schema order.                                                           *)
(***************************************************************************)
C18_HeaderColumns ==
  pc \in {"done", "saved"} =>
    HeaderOf(csv) =
      << <<"i","d">>, <<"l","a","b","e","l">> >> \o PairsOf(SchemaOf)

(***************************************************************************)
(* C19.  When the input is empty or every line is skipped,                 *)
(* parse_tabbed_file returns and the file it has written has no data row   *)
(* and the header id, label, then left_<f>, right_<f> for each field f of  *)
(* the discovered schema.                                                  *)
(***************************************************************************)
C19_HeaderOnlyOutput ==
  (variant \in Variants /\ pc = "done" /\ data = <<>>) =>
    /\ csv.rows = <<>>
    /\ HeaderOf(csv) =
         << <<"i","d">>, <<"l","a","b","e","l">> >> \o PairsOf(ordered_fields)

\* the first substring of 4 consecutive digits of v, '' if v has none
RECURSIVE FirstFourDigits(_)
FirstFourDigits(v) ==
  IF Len(v) < 4 THEN <<>>
  ELSE IF \A j \in 1..4 : v[j] \in {"0","1","2","3","4","5","6","7","8","9"}
       THEN SubSeq(v, 1, 4)
       ELSE FirstFourDigits(Tail(v))

YEAR == <<"y","e","a","r">>

(***************************************************************************)
(* C20.  Year post-processing of dcm.py: in every Output Row, in the       *)
(* DataFrame and in the file written, left_year (right_year) is the first  *)
(* substring of 4 consecutive digits of the value of year in the Field Map *)
(* of the left (right) text of the row's line, and '' when that value has  *)
(* no such substring or the text has no year.                              *)
(***************************************************************************)
C20_YearExtracted ==
  (variant = "dcm" /\ pc = "done") =>
    \A r \in DOMAIN df.rows :
      \A side \in {1, 2} :
        \* want: the year of the side of the row's line, extracted
        \A want \in {FirstFourDigits(
                        ValueIn(SideMap(LineOfRow(r), side), YEAR))} :
          LET col == ColName(IF side = 1 THEN LEFT ELSE RIGHT, YEAR)
              cells == df.rows[r].cells
          IN  \A k \in DOMAIN cells :
                cells[k].key = col =>
                  /\ cells[k].val = want
                  /\ csv.header[k + 2].text = col
                  /\ csv.rows[r][k + 2].text = want

\* a row with left_year '' for the year 'old' and right_year '2007' for the
\* year 'in 2007 1999', and a row of a line without year, '' on both sides
C20_Witness ==
  /\ variant = "dcm"
  /\ pc = "done"
  /\ \E r \in DOMAIN df.rows :
       /\ ValueIn(data[r].cells, ColName(LEFT, YEAR)) = <<"o","l","d">>
       /\ ValueIn(df.rows[r].cells, ColName(LEFT, YEAR)) = <<>>
       /\ ValueIn(data[r].cells, ColName(RIGHT, YEAR)) =
            <<"i","n"," ","2","0","0","7"," ","1","9","9","9">>
       /\ ValueIn(df.rows[r].cells, ColName(RIGHT, YEAR)) = <<"2","0","0","7">>
  /\ \E r \in DOMAIN df.rows :
       /\ YEAR \notin FieldsOfLine(variant, lines[LineOfRow(r)])
       /\ HasKey(df.rows[r].cells, ColName(LEFT, YEAR))
       /\ ValueIn(df.rows[r].cells, ColName(LEFT, YEAR)) = <<>>
       /\ ValueIn(df.rows[r].cells, ColName(RIGHT, YEAR)) = <<>>

\* the cells of the file written: of the header and of every row
CellsOfFile(file) ==
  Range(file.header) \cup UNION {Range(file.rows[r]) : r \in DOMAIN file.rows}

\* a cell that holds a number
IsNumeric(cell) == "num" \in DOMAIN cell

(***************************************************************************)
(* C22.  Output quoting: in the file that a converter (dcm.py, iTuens.py,  *)
(* walmart.py, computer.py) has written, every non-numeric cell is quoted  *)
(* and the numeric cells id and label are not.                             *)
(***************************************************************************)
C22_OutputQuoting ==
  pc \in {"done", "saved"} =>
    \A cell \in CellsOfFile(csv) : cell.quoted = ~IsNumeric(cell)

(***************************************************************************)
(* C22, amended.  In the file that dcm.py, iTuens.py or computer.py has    *)
(* written every non-numeric cell, the header names included, is quoted;   *)
(* in the file that walmart.py has written no cell is quoted; in both, id  *)
(* and label are the first two cells of a row, numeric and not quoted.     *)
(***************************************************************************)
C22_QuotingByConverter ==
  pc \in {"done", "saved"} =>
    /\ \A cell \in CellsOfFile(csv) :
         cell.quoted = (~IsNumeric(cell) /\ variant # "walmart")
    /\ \A r \in DOMAIN csv.rows :
         \A k \in DOMAIN csv.rows[r] : IsNumeric(csv.rows[r][k]) = (k <= 2)

\* a file of walmart.py with a row whose text cells are not quoted
C22_Witness ==
  /\ variant = "walmart"
  /\ pc = "done"
  /\ \E r \in DOMAIN csv.rows :
       \E k \in DOMAIN csv.rows[r] :
         /\ ~IsNumeric(csv.rows[r][k])
         /\ csv.rows[r][k].text # <<>>
         /\ ~csv.rows[r][k].quoted

\* the field names of both sides of the lines of the set S
FieldsOfLines(S) ==
  UNION {Keys(SideMap(k, 1)) \cup Keys(SideMap(k, 2)) : k \in S}

(***************************************************************************)
(* C24.  The schema pass of parse_tabbed_file does not look at the label:  *)
(* when parse_tabbed_file returns, every field name of a line of 3 parts   *)
(* that was skipped for its invalid label is in the schema and is a        *)
(* left_<f> and a right_<f> column of every Output Row, and these columns  *)
(* are '' in every row whose own line does not have the field; so a field  *)
(* that only such skipped lines have is a column that is '' in every row.  *)
(***************************************************************************)
C24_InvalidLabelFieldsInSchema ==
  (variant \in Variants /\ pc = "done") =>
    \* bad: the lines with an invalid label; skipped: their field names;
    \* line[r]: the line of row r
    \A bad \in {InvalidLabel} :
     (bad # {}) =>
     \A skipped \in {FieldsOfLines(bad)}, line \in {RowLines} :
      /\ skipped \subseteq all_fields
      /\ skipped \subseteq Range(ordered_fields)
      /\ \A r \in DOMAIN data :
           \A own \in {FieldsOfLines({line[r]})} :
             \A f \in skipped :
               /\ HasKey(data[r].cells, ColName(LEFT, f))
               /\ HasKey(data[r].cells, ColName(RIGHT, f))
               /\ f \notin own =>
                    /\ DictGet(data[r].cells, ColName(LEFT, f)) = <<>>
                    /\ DictGet(data[r].cells, ColName(RIGHT, f)) = <<>>
                    /\ ValueIn(df.rows[r].cells, ColName(LEFT, f)) = <<>>
                    /\ ValueIn(df.rows[r].cells, ColName(RIGHT, f)) = <<>>

\* a field that only a line with an invalid label has is in the schema and
\* is '' on both sides of the one row
C24_Witness ==
  /\ variant \in Variants
  /\ pc = "done"
  /\ Len(data) = 1
  /\ \E f \in FieldsOfLines(InvalidLabel) \ FieldsOfLines(Kept) :
       /\ f \in Range(ordered_fields)
       /\ HasKey(data[1].cells, ColName(LEFT, f))
       /\ DictGet(data[1].cells, ColName(LEFT, f)) = <<>>
       /\ DictGet(data[1].cells, ColName(RIGHT, f)) = <<>>

(***************************************************************************)
(* C25.  No field is lost in row assembly: when parse_tabbed_file returns, *)
(* for every kept line every key of the Field Map of its left (right) text *)
(* is in the schema, and every (key, value) pair of that Field Map is in   *)
(* the line's Output Row as left_<key> (right_<key>) = value.  These are   *)
(* the rows of data, before the year columns of dcm.py are rewritten.      *)
(***************************************************************************)
C25_NoFieldLost ==
  (variant \in Variants /\ pc = "done") =>
    \A line \in {RowLines}, r \in DOMAIN data :
      \A side \in {1, 2} :
        \* map: the Field Map of the side of line[r], the row's line
        \A map \in {SideMap(line[r], side)} :
          \A i \in DOMAIN map :
            LET col == ColName(IF side = 1 THEN LEFT ELSE RIGHT, map[i].key)
            IN  /\ map[i].key \in Range(ordered_fields)
                /\ HasKey(data[r].cells, col)
                /\ DictGet(data[r].cells, col) = map[i].val

\* with preferred_order ['title', 'year'], the pair brand = 'b' of the left
\* text of a line is left_brand = 'b' in its row
C25_Witness ==
  /\ variant \in {"dcm", "walmart"}
  /\ pc = "done"
  /\ preferred_order.given
  /\ <<"b","r","a","n","d">> \notin Range(preferred_order.list)
  /\ \E r \in DOMAIN data :
       /\ [key |-> <<"b","r","a","n","d">>, val |-> <<"b">>] \in
            Range(SideMap(LineOfRow(r), 1))
       /\ DictGet(data[r].cells, ColName(LEFT, <<"b","r","a","n","d">>)) =
            <<"b">>

(***************************************************************************)
(* The schema pass and the ordering step of parse_tabbed_file of dcm.py    *)
(* and walmart.py on their own, for more values of preferred_order: a list *)
(* that repeats a name and has a name that no line has, a list of such a   *)
(* name only, the empty list.                                              *)
(***************************************************************************)
MorePreferredOrders ==
  PreferredOrders \cup
  { \* ['year', 'authors', 'title', 'year']
    [given |-> TRUE,
     list |-> << <<"y","e","a","r">>, <<"a","u","t","h","o","r","s">>,
                 <<"t","i","t","l","e">>, <<"y","e","a","r">> >>],
    \* ['authors']
    [given |-> TRUE, list |-> << <<"a","u","t","h","o","r","s">> >>],
    \* []
    [given |-> TRUE, list |-> <<>>] }

OrderInit ==
  /\ TokIdle
  /\ LlmIdle
  /\ variant \in {"dcm", "walmart"}
  /\ lines \in Files
  /\ preferred_order \in MorePreferredOrders
  /\ pc = "pass1"
  /\ idx = 1
  /\ all_fields = {}
  /\ ordered_fields = <<>>
  /\ data = <<>>
  /\ row_id = 0
  /\ log = <<>>
  /\ df = NoFrame
  /\ csv = NoCsv

OrderNext ==
  \/ Pass1Step
  \/ OrderFields

OrderSpec == OrderInit /\ [][OrderNext]_vars

\* the number of places of the list where f is
Occurrences(list, f) == Cardinality({k \in DOMAIN list : list[k] = f})

(***************************************************************************)
(* C26.  For every preferred_order, one with repeated names or with names  *)
(* never discovered included, the ordered schema of parse_tabbed_file has  *)
(* each discovered field exactly once and nothing else.                    *)
(***************************************************************************)
C26_EachFieldOnce ==
  pc = "pass2" =>
    /\ Range(ordered_fields) = all_fields
    /\ \A f \in all_fields : Occurrences(ordered_fields, f) = 1

(***************************************************************************)
(* C26, amended.  For every preferred_order the ordered schema of          *)
(* parse_tabbed_file has the discovered fields and nothing else; a         *)
(* discovered field is in it once, unless a non-empty preferred_order has  *)
(* it more than once: then it is in the schema as many times as in         *)
(* preferred_order.                                                        *)
(***************************************************************************)
C26_EachFieldAsPreferred ==
  pc = "pass2" =>
    /\ Range(ordered_fields) = all_fields
    /\ \A f \in all_fields :
         LET n == IF preferred_order.given
                  THEN Occurrences(preferred_order.list, f) ELSE 0
         IN  Occurrences(ordered_fields, f) = IF n > 1 THEN n ELSE 1

\* preferred_order ['year', 'authors', 'title', 'year'] and the discovered
\* fields title, year, brand give ['year', 'title', 'year', 'brand']
C26_Witness ==
  /\ pc = "pass2"
  /\ all_fields = { <<"y","e","a","r">>, <<"t","i","t","l","e">>,
                    <<"b","r","a","n","d">> }
  /\ Occurrences(preferred_order.list, <<"y","e","a","r">>) = 2
  /\ ordered_fields = << <<"y","e","a","r">>, <<"t","i","t","l","e">>,
                         <<"y","e","a","r">>, <<"b","r","a","n","d">> >>

(***************************************************************************)
(* C27.  No value that robust_parse_col_val of dcm.py and walmart.py       *)
(* returns holds a complete COL <name> VAL triple: the value as returned,  *)
(* after the whitespace collapse and the stripping of separators, has no   *)
(* such triple, and tokenizing it again returns the empty mapping.         *)
(***************************************************************************)
C27_NoTripleInValue ==
  called \in {"dcm", "walmart"} =>
    \A i \in DOMAIN record :
      /\ NoTriple(record[i].val)
      /\ robust_parse_col_val(called, record[i].val) = <<>>

\* a text with two triples, and a returned value that holds the letters COL
\* and no triple
C27_Witness ==
  /\ called \in {"dcm", "walmart"}
  /\ Len(matches) >= 2
  /\ \E i \in DOMAIN record : Contains(record[i].val, COL)

(***************************************************************************)
(* The second loop of parse_tabbed_file with its lines taken in any order: *)
(* the body of "for raw in lines" (dcm.py, lines 62-88) for any line that  *)
(* has not been gone through yet, one line at a time, with the names data  *)
(* and row_id that the body shares between lines.  The schema pass runs    *)
(* first, as it is.                                                        *)
(***************************************************************************)
\* "if not line: continue" of dcm.py and walmart.py, for line k
ParBlank(k) ==
  /\ pc = "pass2"
  /\ k \in DOMAIN lines \ visited
  /\ variant # "iTuens"
  /\ strip(lines[k]) = <<>>
  /\ visited' = visited \cup {k}
  /\ UNCHANGED <<tokvars, llmvars, variant, lines, preferred_order, pc, idx,
                 all_fields, ordered_fields, data, row_id, log, df, csv>>

\* "if len(parts) != 3": line k is reported and skipped
ParMalformed(k) ==
  /\ pc = "pass2"
  /\ k \in DOMAIN lines \ visited
  /\ (variant # "iTuens" => strip(lines[k]) # <<>>)
  /\ Len(Parts(variant, strip(lines[k]))) # 3
  /\ log' = Append(log, [line |-> k, why |-> "malformed"])
  /\ visited' = visited \cup {k}
  /\ UNCHANGED <<tokvars, llmvars, variant, lines, preferred_order, pc, idx,
                 all_fields, ordered_fields, data, row_id, df, csv>>

\* int(label) raises ValueError: line k is reported and skipped
ParInvalidLabel(k) ==
  /\ pc = "pass2"
  /\ k \in DOMAIN lines \ visited
  /\ HasThreeParts(variant, lines[k])
  /\ ~IsIntText(Parts(variant, strip(lines[k]))[3])
  /\ log' = Append(log, [line |-> k, why |-> "invalid label"])
  /\ visited' = visited \cup {k}
  /\ UNCHANGED <<tokvars, llmvars, variant, lines, preferred_order, pc, idx,
                 all_fields, ordered_fields, data, row_id, df, csv>>

\* a body that builds the row of the first line that gives one, not of line k
ParRow_headLine(k) ==
  /\ pc = "pass2"
  /\ k \in DOMAIN lines \ visited
  /\ HasThreeParts(variant, lines[k])
  /\ IsIntText(Parts(variant, strip(lines[k]))[3])
  /\ LET head == CHOOSE j \in DOMAIN lines :
                   /\ HasThreeParts(variant, lines[j])
                   /\ IsIntText(Parts(variant, strip(lines[j]))[3])
                   /\ \A i \in 1..(j - 1) :
                        ~(/\ HasThreeParts(variant, lines[i])
                          /\ IsIntText(Parts(variant, strip(lines[i]))[3]))
     IN  data' = Append(data, MakeRow(variant, row_id,
                                      Parts(variant, strip(lines[head])),
                                      ordered_fields))
  /\ row_id' = row_id + 1
  /\ visited' = visited \cup {k}
  /\ UNCHANGED <<tokvars, llmvars, variant, lines, preferred_order, pc, idx,
                 all_fields, ordered_fields, log, df, csv>>

\* line k gives a row: data.append(row); row_id += 1
ParRow(k) ==
  /\ pc = "pass2"
  /\ k \in DOMAIN lines \ visited
  /\ HasThreeParts(variant, lines[k])
  /\ IsIntText(Parts(variant, strip(lines[k]))[3])
  /\ data' = Append(data, MakeRow(variant, row_id,
                                  Parts(variant, strip(lines[k])),
                                  ordered_fields))
  /\ row_id' = row_id + 1
  /\ visited' = visited \cup {k}
  /\ UNCHANGED <<tokvars, llmvars, variant, lines, preferred_order, pc, idx,
                 all_fields, ordered_fields, log, df, csv>>

\* every line has been gone through: df = pd.DataFrame(data), the year
\* columns of dcm.py, df.to_csv(...), return df
ParFinish ==
  /\ pc = "pass2"
  /\ visited = DOMAIN lines
  /\ df' = DataFrame(variant, data)
  /\ csv' = to_csv(variant, df')
  /\ pc' = "done"
  /\ UNCHANGED <<tokvars, llmvars, visited, variant, lines, preferred_order,
                 idx, all_fields, ordered_fields, data, row_id, log>>

\* the files of fewer than MaxLines lines
ParFiles == {file \in Files : Len(file) < MaxLines}

ParInit ==
  /\ Init
  /\ variant \in Variants
  /\ lines \in ParFiles

ParNext ==
  \/ Pass1Step
  \/ OrderFields
  \/ \E k \in DOMAIN lines : ParBlank(k)
  \/ \E k \in DOMAIN lines : ParMalformed(k)
  \/ \E k \in DOMAIN lines : ParInvalidLabel(k)
  \/ \E k \in DOMAIN lines : ParRow(k)
  \/ ParFinish

ParSpec == ParInit /\ [][ParNext]_vars

\* the row that the loop of parse_tabbed_file, which takes the lines in
\* input order, builds for the kept line k: its id is the number of kept
\* lines before it
InputOrderRow(k) ==
  LET K == Kept
  IN  MakeRow(variant, Cardinality({j \in K : j < k}),
              Parts(variant, strip(lines[k])), ordered_fields)

InputOrderRows == {InputOrderRow(k) : k \in Kept}

Str(s) == [t |-> "str", s |-> s]

Num(milli) == [t |-> "num", milli |-> milli]

NaN == [t |-> "nan"]

Inf == [t |-> "inf"]

None == [t |-> "None"]

\* the list ["a"]
AList == [t |-> "list"]

Dict(d) == [t |-> "dict", d |-> d]

\* dict.get(key, default)
DictGetOr(dict, key, default) ==
  IF HasKey(dict, key)
  THEN dict[CHOOSE k \in DOMAIN dict : dict[k].key = key].val
  ELSE default

\* bool(value): None, "", 0, 0.0 and {} are false, nan and ["a"] are true
Truthy(value) ==
  CASE value.t = "None" -> FALSE
    [] value.t = "str"  -> value.s # <<>>
    [] value.t = "num"  -> value.milli # 0
    [] value.t = "dict" -> value.d # <<>>
    [] OTHER            -> TRUE

DigitSeq == <<"0","1","2","3","4","5","6","7","8","9">>

RECURSIVE DigitsText(_)
DigitsText(n) ==
  IF n < 10 THEN <<DigitSeq[n + 1]>>
  ELSE DigitsText(n \div 10) \o <<DigitSeq[(n % 10) + 1]>>

\* the digits of a fraction given in thousandths, as repr writes them:
\* no trailing zero but the first
FractionText(m) ==
  IF m % 100 = 0 THEN <<DigitSeq[(m \div 100) + 1]>>
  ELSE IF m % 10 = 0
       THEN <<DigitSeq[(m \div 100) + 1], DigitSeq[((m \div 10) % 10) + 1]>>
       ELSE <<DigitSeq[(m \div 100) + 1], DigitSeq[((m \div 10) % 10) + 1],
              DigitSeq[(m % 10) + 1]>>

\* repr of a float that is not negative
FloatText(a) == DigitsText(a \div 1000) \o <<".">> \o FractionText(a % 1000)

\* str(value), a number being a float
PyStr(value) ==
  CASE value.t = "str"  -> value.s
    [] value.t = "num"  -> IF value.milli < 0
                           THEN <<"-">> \o FloatText(0 - value.milli)
                           ELSE FloatText(value.milli)
    [] value.t = "nan"  -> <<"n","a","n">>
    [] value.t = "inf"  -> <<"i","n","f">>
    [] value.t = "None" -> <<"N","o","n","e">>
    [] value.t = "list" -> <<"[","'","a","'","]">>
    [] OTHER            -> <<"{",".",".",".","}">>

\* the characters of s that are not in the set drop
RECURSIVE Without(_, _)
Without(s, drop) ==
  IF s = <<>> THEN <<>>
  ELSE IF Head(s) \in drop THEN Without(Tail(s), drop)
       ELSE <<Head(s)>> \o Without(Tail(s), drop)

\* the first three digits of a fraction, as thousandths
Thousandths(frac) ==
  100 * (IF 1 <= Len(frac) THEN CodeOf(frac[1]) - 48 ELSE 0)
   + 10 * (IF 2 <= Len(frac) THEN CodeOf(frac[2]) - 48 ELSE 0)
   + (IF 3 <= Len(frac) THEN CodeOf(frac[3]) - 48 ELSE 0)

ValueError == [t |-> "raise", exc |-> "ValueError"]

\* the float of the digits int before the point and frac after it
DecimalFloat(int, frac, neg) ==
  IF Len(int) + Len(frac) = 0 THEN ValueError
  ELSE IF neg THEN Num(0 - (DigitsValue(int, 0) * 1000 + Thousandths(frac)))
  ELSE Num(DigitsValue(int, 0) * 1000 + Thousandths(frac))

\* the float of a text without its sign: nan, inf, infinity, or decimal
\* digits with at most one point
UnsignedFloat(body, neg) ==
  IF body = <<"n","a","n">> THEN NaN
  ELSE IF body \in {<<"i","n","f">>, <<"i","n","f","i","n","i","t","y">>}
  THEN Inf
  ELSE IF \E k \in DOMAIN body : body[k] \notin DigitChars \cup {"."}
  THEN ValueError
  ELSE IF Cardinality({k \in DOMAIN body : body[k] = "."}) > 1
  THEN ValueError
  ELSE IF \E k \in DOMAIN body : body[k] = "."
  THEN DecimalFloat(
         SubSeq(body, 1, (CHOOSE k \in DOMAIN body : body[k] = ".") - 1),
         SubSeq(body, (CHOOSE k \in DOMAIN body : body[k] = ".") + 1,
                Len(body)),
         neg)
  ELSE DecimalFloat(body, <<>>, neg)

\* the float of a text that is stripped and in lower case
SignedFloat(t) ==
  IF t # <<>> /\ t[1] \in {"+", "-"}
  THEN UnsignedFloat(Tail(t), t[1] = "-")
  ELSE UnsignedFloat(t, FALSE)

\* float(v) of a str (texts with an exponent or an underscore, which float
\* also takes, are in none of the inputs below); a fraction is read to its
\* third digit
ParseFloat(v) == SignedFloat(lower(strip(v)))

\* a number of thousandths to the nearest ten
NearestTen(a) == IF a % 10 < 5 THEN a - (a % 10) ELSE a - (a % 10) + 10

\* float(f"{x:.2f}") of a float: the nearest hundredth (no input below is
\* half way between two hundredths); nan and inf stay what they are
TwoDecimals(x) ==
  IF x.t # "num" THEN x
  ELSE IF x.milli < 0 THEN Num(0 - NearestTen(0 - x.milli))
  ELSE Num(NearestTen(x.milli))

UNKNOWN == Str(<<"u","n","k","n","o","w","n">>)

\* the spellings of a missing price that _coerce_price knows
UnknownPrices ==
  { <<>>, <<"n","/","a">>, <<"n","a">>, <<"n","o","n","e">>,
    <<"n","u","l","l">>, <<"u","n","k","n","o","w","n">> }

\* try: return float(f"{float(v):.2f}")  except Exception: return "unknown"
FloatOrUnknown(f) == IF f = ValueError THEN UNKNOWN ELSE TwoDecimals(f)

\* _coerce_price(value) for a str, v being value.strip().lower()
coerce_price_str(v) ==
  IF v \in UnknownPrices THEN UNKNOWN
  ELSE FloatOrUnknown(ParseFloat(Without(v, {",", "$"})))

\* _coerce_price(value) of walmart/prompt.py
coerce_price(value) ==
  CASE value.t = "None"                  -> UNKNOWN
    [] value.t \in {"num", "nan", "inf"} -> TwoDecimals(value)
    [] value.t = "str"                   -> coerce_price_str(lower(strip(value.s)))
    [] OTHER                             -> UNKNOWN

\* the scripts with a process_dataset that calls the chat endpoint
Scripts == {"walmart/prompt", "camers/process", "DBLACM/prompt"}

ID == <<"i","d">>

LABEL == <<"l","a","b","e","l">>

CATEGORY == <<"c","a","t","e","g","o","r","y">>

BRAND == <<"b","r","a","n","d">>

MODELNO == <<"m","o","d","e","l","n","o">>

PRICE == <<"p","r","i","c","e">>

AUTHORS == <<"a","u","t","h","o","r","s">>

VENUE == <<"v","e","n","u","e">>

LEFT_TITLE == ColName(LEFT, TITLE)

RIGHT_TITLE == ColName(RIGHT, TITLE)

\* EXPECTED_KEYS of each script
EXPECTED_KEYS(script) ==
  CASE script = "walmart/prompt" -> <<TITLE, CATEGORY, BRAND, MODELNO, PRICE>>
    [] script = "camers/process" -> <<TITLE>>
    [] script = "DBLACM/prompt"  -> <<TITLE, AUTHORS, VENUE, YEAR>>

\* the placeholder "VAL -" of DBLACM/prompt.py
VAL_DASH == Str(<<"V","A","L"," ","-">>)

Raise(exc) == [t |-> "raise", exc |-> exc]

Raised(result) == result.t = "raise"

\* value or ""
OrEmpty(value) == IF Truthy(value) THEN value ELSE Str(<<>>)

\* str(response.get(key, "") or "").strip()
StrField(d, key) == Str(strip(PyStr(OrEmpty(DictGetOr(d, key, Str(<<>>))))))

\* for key, value in response.items(): normalized[key_map.get(key, key)] =
\* value, the key_map of both scripts giving each key itself
RECURSIVE CopyItems(_, _)
CopyItems(items, normalized) ==
  IF items = <<>> THEN normalized
  ELSE CopyItems(Tail(items),
                 DictSet(normalized, Head(items).key, Head(items).val))

\* for k in keys: d.setdefault(k, default)
RECURSIVE SetDefaults(_, _, _)
SetDefaults(d, keys, default) ==
  IF keys = <<>> THEN d
  ELSE SetDefaults(IF HasKey(d, Head(keys)) THEN d
                   ELSE Append(d, [key |-> Head(keys), val |-> default]),
                   Tail(keys), default)

\* normalize_llm_output(response) of each script: a dict, or AttributeError
\* for a response that has no get (walmart/prompt.py) or no items
\* (camers/process.py; DBLACM/prompt.py, where a false response counts as {})
normalize_llm_output(script, response) ==
  CASE script = "walmart/prompt" ->
         IF response.t # "dict" THEN Raise("AttributeError")
         ELSE Dict(<< [key |-> TITLE,    val |-> StrField(response.d, TITLE)],
                      [key |-> CATEGORY, val |-> StrField(response.d, CATEGORY)],
                      [key |-> BRAND,    val |-> StrField(response.d, BRAND)],
                      [key |-> MODELNO,  val |-> StrField(response.d, MODELNO)],
                      [key |-> PRICE,    val |->
                         coerce_price(DictGetOr(response.d, PRICE, UNKNOWN))] >>)
    [] script = "camers/process" ->
         IF response.t # "dict" THEN Raise("AttributeError")
         ELSE Dict(CopyItems(response.d, <<>>))
    [] script = "DBLACM/prompt" ->
         IF ~Truthy(response)
         THEN Dict(SetDefaults(<<>>, EXPECTED_KEYS(script), VAL_DASH))
         ELSE IF response.t # "dict" THEN Raise("AttributeError")
         ELSE Dict(SetDefaults(CopyItems(response.d, <<>>),
                               EXPECTED_KEYS(script), VAL_DASH))

(***************************************************************************)
(* The chat endpoint.  A call of ollama.chat raises, or it returns a       *)
(* completion: the text of a JSON value as it is ("bare"), inside a        *)
(* ``` fence ("fenced") or with words before and after it ("prose"), or a  *)
(* text that holds no JSON value at all.  The words have no brace, and of  *)
(* the JSON values only a dict has one.                                    *)
(***************************************************************************)
NotJson == [t |-> "notjson"]

Completion(form, json) == [t |-> "text", form |-> form, json |-> json]

\* content.strip(), the two re.sub that take a fence off, json.loads(content)
json_loads(completion) ==
  IF completion.json # NotJson /\ completion.form \in {"bare", "fenced"}
  THEN completion.json
  ELSE Raise("JSONDecodeError")

\* _extract_json(text) of walmart/prompt.py: the fence taken off, then the
\* text from its first "{" to its last "}", if it has both, is loaded
extract_json(completion) ==
  IF completion.json = NotJson THEN Raise("JSONDecodeError")
  ELSE IF completion.json.t = "dict" THEN completion.json
  ELSE json_loads(completion)

\* the except clauses after the try of each script's extraction function
Handlers_jsonDecodeErrorOnly(script) == <<"JSONDecodeError">>

Handlers(script) ==
  IF script = "walmart/prompt" THEN <<"Exception">>
  ELSE <<"JSONDecodeError", "Exception">>

\* isinstance(exc, cls) for the exceptions that can be raised here
IsInstance(exc, cls) == cls = "Exception" \/ cls = exc

Caught(script, exc) ==
  \E k \in DOMAIN Handlers(script) : IsInstance(exc, Handlers(script)[k])

\* return left_out, right_out, unless one of the two normalizations raised
BothOut(left_out, right_out) ==
  IF Raised(left_out) THEN left_out
  ELSE IF Raised(right_out) THEN right_out
  ELSE [t |-> "ok", left |-> left_out, right |-> right_out]

\* the try after json.loads: parsed.get("left", {}) and
\* parsed.get("right", {}) normalized; camers/process.py: parsed normalized
Normalized(script, parsed) ==
  IF Raised(parsed) THEN parsed
  ELSE IF script = "camers/process"
  THEN BothOut(normalize_llm_output(script, parsed), Dict(<<>>))
  ELSE IF parsed.t # "dict" THEN Raise("AttributeError")
  ELSE BothOut(normalize_llm_output(script,
                                    DictGetOr(parsed.d, LEFT, Dict(<<>>))),
               normalize_llm_output(script,
                                    DictGetOr(parsed.d, RIGHT, Dict(<<>>))))

\* the body of the try: the chat call, the parsing of the completion and
\* the normalization; a pair of dicts (camers/process.py: one dict, as
\* left), or the exception raised
TryBody(script, outcome) ==
  IF Raised(outcome) THEN outcome
  ELSE IF script = "walmart/prompt"
  THEN Normalized(script, extract_json(outcome))
  ELSE Normalized(script, json_loads(outcome))

\* what the except clauses return: walmart/prompt.py the two records
\* normalized, camers/process.py the record, DBLACM/prompt.py
\* normalize_llm_output({}) twice
Fallback(script, left_record, right_record) ==
  CASE script = "walmart/prompt" ->
         BothOut(normalize_llm_output(script, left_record),
                 normalize_llm_output(script, right_record))
    [] script = "camers/process" ->
         BothOut(left_record, Dict(<<>>))
    [] script = "DBLACM/prompt" ->
         BothOut(normalize_llm_output(script, Dict(<<>>)),
                 normalize_llm_output(script, Dict(<<>>)))

\* the result r of the try, or what the except clause that takes its
\* exception returns
Handled(script, left, right, r) ==
  IF ~Raised(r) THEN r
  ELSE IF Caught(script, r.exc) THEN Fallback(script, left, right)
  ELSE r

\* extract_pair_standardized_attributes(left_record, right_record) and, in
\* camers/process.py, extract_standardized_attributes(record), the record
\* passed as left
extract_pair_standardized_attributes(script, left, right, outcome) ==
  Handled(script, left, right, TryBody(script, outcome))

StartsWith(s, prefix) ==
  Len(s) >= Len(prefix) /\ SubSeq(s, 1, Len(prefix)) = prefix

\* {col[len(f"{side}_"):]: row[col] for col in row
\*  if col.startswith(f"{side}_")}
RECURSIVE SideColumns(_, _)
SideColumns(row, prefix) ==
  IF row = <<>> THEN <<>>
  ELSE IF StartsWith(Head(row).key, prefix)
       THEN <<[key |-> SubSeq(Head(row).key, Len(prefix) + 1,
                              Len(Head(row).key)),
               val |-> Head(row).val]>> \o SideColumns(Tail(row), prefix)
       ELSE SideColumns(Tail(row), prefix)

\* for key in keys: d[key] = row.get(f"{side}_{key}")
RECURSIVE GetColumns(_, _, _)
GetColumns(row, side, keys) ==
  IF keys = <<>> THEN <<>>
  ELSE <<[key |-> Head(keys),
          val |-> DictGetOr(row, ColName(side, Head(keys)), None)]>>
         \o GetColumns(row, side, Tail(keys))

\* split_record(row, side) of walmart/prompt.py and DBLACM/prompt.py; the
\* record_pair of camers/process.py, passed as the left record
split_record(script, row, side) ==
  CASE script = "walmart/prompt" ->
         Dict(GetColumns(row, side, EXPECTED_KEYS(script)))
    [] script = "camers/process" ->
         Dict(<< [key |-> LEFT_TITLE,
                  val |-> DictGetOr(row, LEFT_TITLE, Str(<<>>))],
                 [key |-> RIGHT_TITLE,
                  val |-> DictGetOr(row, RIGHT_TITLE, Str(<<>>))],
                 [key |-> LABEL, val |-> DictGetOr(row, LABEL, Num(0))] >>)
    [] script = "DBLACM/prompt" ->
         Dict(SideColumns(row, side \o <<"_">>))

\* for k, v in cleaned.items(): new_row[f"{side}_{k}"] = v
RECURSIVE PutColumns(_, _, _)
PutColumns(new_row, side, items) ==
  IF items = <<>> THEN new_row
  ELSE PutColumns(DictSet(new_row, ColName(side, Head(items).key),
                          Head(items).val),
                  side, Tail(items))

\* the prompt of the call: walmart/prompt.py takes _build_prompt_match for
\* a label that int() turns into 1, _build_prompt_nonmatch otherwise
PromptOf(script, row) ==
  LET raw_label == DictGetOr(row, LABEL, None)
  IN  IF script # "walmart/prompt" THEN "pair"
      ELSE IF raw_label.t = "num" /\ raw_label.milli \div 1000 = 1
           THEN "match" ELSE "nonmatch"

\* new_row = {"id": row_dict.get("id"), "label": row_dict.get("label")}
IdAndLabel(row) ==
  << [key |-> ID,    val |-> DictGetOr(row, ID, None)],
     [key |-> LABEL, val |-> DictGetOr(row, LABEL, None)] >>

\* new_row, from what the extraction function returned
RowOf(script, row, left_input, cleaned) ==
  IF Raised(cleaned) THEN cleaned
  ELSE IF script = "camers/process"
  THEN Dict(IdAndLabel(row) \o
         << [key |-> LEFT_TITLE,
             val |-> DictGetOr(cleaned.left.d, LEFT_TITLE,
                               DictGetOr(left_input.d, LEFT_TITLE, None))],
            [key |-> RIGHT_TITLE,
             val |-> DictGetOr(cleaned.left.d, RIGHT_TITLE,
                               DictGetOr(left_input.d, RIGHT_TITLE, None))] >>)
  ELSE IF script = "DBLACM/prompt"
  THEN Dict(PutColumns(
              PutColumns(IdAndLabel(row), LEFT,
                SetDefaults(cleaned.left.d, EXPECTED_KEYS(script), VAL_DASH)),
              RIGHT,
              SetDefaults(cleaned.right.d, EXPECTED_KEYS(script), VAL_DASH)))
  ELSE Dict(PutColumns(PutColumns(IdAndLabel(row), LEFT, cleaned.left.d),
                       RIGHT, cleaned.right.d))

\* the body of "for _, row in df.iterrows()" up to all_rows.append: the
\* new_row of the input row, or the exception that ends process_dataset
NewRow(script, row, outcome) ==
  RowOf(script, row, split_record(script, row, LEFT),
        extract_pair_standardized_attributes(
          script, split_record(script, row, LEFT),
          split_record(script, row, RIGHT), outcome))

(***************************************************************************)
(* Inputs of process_dataset.  A row of input_csv is the dict that         *)
(* row.to_dict() gives: a text cell is a str, a numeric cell a number, an  *)
(* empty cell float("nan"); a column has one kind of cell in every row.    *)
(***************************************************************************)
MaxRows == 2

Row(cells) == [k \in DOMAIN cells |-> [key |-> cells[k][1], val |-> cells[k][2]]]

InputRows(script) ==
  CASE script = "walmart/prompt" ->
    { Row(<< <<ID, Num(0)>>, <<LABEL, Num(1000)>>,
             <<ColName(LEFT, TITLE), Str(<<"H","P"," ","K","i","t"," ">>)>>,
             <<ColName(LEFT, CATEGORY), Str(<<"I","n","k">>)>>,
             <<ColName(LEFT, BRAND), Str(<<"H","P">>)>>,
             <<ColName(LEFT, MODELNO), Str(<<"Q","3">>)>>,
             <<ColName(LEFT, PRICE), Num(194840)>>,
             <<ColName(RIGHT, TITLE), Str(<<"h","p"," ","k","i","t">>)>>,
             <<ColName(RIGHT, CATEGORY), NaN>>,
             <<ColName(RIGHT, BRAND), Str(<<"H","P">>)>>,
             <<ColName(RIGHT, MODELNO), NaN>>,
             <<ColName(RIGHT, PRICE), NaN>> >>),
      Row(<< <<ID, Num(7000)>>, <<LABEL, Num(0)>>,
             <<ColName(LEFT, TITLE), Str(<<"T","V">>)>>,
             <<ColName(LEFT, CATEGORY), NaN>>,
             <<ColName(LEFT, BRAND), Str(<<"L","G">>)>>,
             <<ColName(LEFT, MODELNO), Str(<<" ","L","7">>)>>,
             <<ColName(LEFT, PRICE), Num(15000)>>,
             <<ColName(RIGHT, TITLE), Str(<<"P","C">>)>>,
             <<ColName(RIGHT, CATEGORY), Str(<<"I","T">>)>>,
             <<ColName(RIGHT, BRAND), NaN>>,
             <<ColName(RIGHT, MODELNO), Str(<<"X","1">>)>>,
             <<ColName(RIGHT, PRICE), Str(<<"$","1",",","2","9","9",".","0","0">>)>> >>) }
    [] script = "camers/process" ->
    { Row(<< <<ID, Num(0)>>, <<LABEL, Num(1000)>>,
             <<LEFT_TITLE, Str(<<"S","o","n","y"," ","A","7"," ">>)>>,
             <<RIGHT_TITLE, Str(<<"s","o","n","y"," ","a","7">>)>> >>),
      Row(<< <<ID, Num(7000)>>, <<LABEL, Num(0)>>,
             <<LEFT_TITLE, Str(<<"N","i","k","o","n">>)>>,
             <<RIGHT_TITLE, NaN>> >>) }
    [] script = "DBLACM/prompt" ->
    { Row(<< <<ID, Num(0)>>, <<LABEL, Num(1000)>>,
             <<ColName(LEFT, TITLE), Str(<<"B","-","t","r","e","e","s">>)>>,
             <<ColName(LEFT, AUTHORS), Str(<<"R"," ","B","a","y","e","r">>)>>,
             <<ColName(LEFT, VENUE), Str(<<"V","L","D","B">>)>>,
             <<ColName(LEFT, YEAR), Num(1999000)>>,
             <<ColName(RIGHT, TITLE), Str(<<"b","-","t","r","e","e","s">>)>>,
             <<ColName(RIGHT, AUTHORS), Str(<<"B","a","y","e","r">>)>>,
             <<ColName(RIGHT, VENUE), NaN>>,
             <<ColName(RIGHT, YEAR), Num(1999000)>> >>),
      Row(<< <<ID, Num(7000)>>, <<LABEL, Num(0)>>,
             <<ColName(LEFT, TITLE), Str(<<"J","o","i","n","s">>)>>,
             <<ColName(LEFT, AUTHORS), NaN>>,
             <<ColName(LEFT, VENUE), Str(<<"S","I","G","M","O","D">>)>>,
             <<ColName(LEFT, YEAR), Num(2003000)>>,
             <<ColName(RIGHT, TITLE), Str(<<"V","i","e","w","s">>)>>,
             <<ColName(RIGHT, AUTHORS), Str(<<"J"," ","G","r","a","y">>)>>,
             <<ColName(RIGHT, VENUE), Str(<<"T","O","D","S">>)>>,
             <<ColName(RIGHT, YEAR), Num(2001000)>> >>) }

\* the files of at most MaxRows rows
InputFiles(script) == UNION {[1..n -> InputRows(script)] : n \in 0..MaxRows}

\* a JSON object, from its members
Obj(members) ==
  Dict([k \in DOMAIN members |->
          [key |-> members[k][1], val |-> members[k][2]]])

NOTE == <<"n","o","t","e">>

\* the JSON object of the asked-for shape that a completion holds
GoodJson(script) ==
  CASE script = "walmart/prompt" ->
    Obj(<< <<LEFT, Obj(<< <<TITLE, Str(<<" ","H","P"," ","K","i","t">>)>>,
                          <<CATEGORY, Str(<<"I","n","k">>)>>,
                          <<BRAND, Str(<<"H","P">>)>>,
                          <<MODELNO, Str(<<"Q","3">>)>>,
                          <<PRICE, Num(194844)>> >>)>>,
           <<RIGHT, Obj(<< <<TITLE, Str(<<"H","P"," ","K","i","t">>)>>,
                           <<CATEGORY, Str(<<"I","n","k">>)>>,
                           <<BRAND, Str(<<"H","P">>)>>,
                           <<MODELNO, Str(<<>>)>>,
                           <<PRICE, Str(<<"u","n","k","n","o","w","n">>)>> >>)>> >>)
    [] script = "camers/process" ->
    Obj(<< <<LEFT_TITLE, Str(<<"S","o","n","y"," ","A","7">>)>>,
           <<RIGHT_TITLE, Str(<<"S","o","n","y"," ","A","7">>)>> >>)
    [] script = "DBLACM/prompt" ->
    Obj(<< <<LEFT, Obj(<< <<TITLE, Str(<<"B","-","T","r","e","e","s">>)>>,
                          <<AUTHORS, Str(<<"R"," ","B","a","y","e","r">>)>>,
                          <<VENUE, Str(<<"V","L","D","B">>)>>,
                          <<YEAR, Str(<<"1","9","9","9">>)>> >>)>>,
           <<RIGHT, Obj(<< <<TITLE, Str(<<"B","-","T","r","e","e","s">>)>>,
                           <<AUTHORS, Str(<<"R"," ","B","a","y","e","r">>)>>,
                           <<VENUE, Str(<<"V","A","L"," ","-">>)>>,
                           <<YEAR, Str(<<"1","9","9","9">>)>> >>)>> >>)

\* other JSON values that a completion holds: objects with a key too many
\* or too few and with prices of every kind, objects with no left or
\* right or with a left that is no object, a string, a list
OtherJson(script) ==
  CASE script = "walmart/prompt" ->
    { Obj(<< <<LEFT, Obj(<< <<TITLE, Str(<<"T","V"," ">>)>>,
                            <<NOTE, Str(<<"n","e","w">>)>>,
                            <<MODELNO, Num(3000)>>,
                            <<PRICE, Str(<<"$","1",",","2","9","9",".","0","0">>)>> >>)>>,
             <<RIGHT, Obj(<< <<TITLE, None>>,
                             <<PRICE, Str(<<" ","N","/","A">>)>> >>)>> >>),
      Obj(<< <<LEFT, Obj(<< <<TITLE, Str(<<"T","V">>)>>,
                            <<PRICE, Str(<<"n","a","n">>)>> >>)>>,
             <<RIGHT, Obj(<< <<TITLE, Str(<<"P","C">>)>>,
                             <<PRICE, Str(<<"c","h","e","a","p">>)>> >>)>> >>),
      Obj(<< <<LEFT, Obj(<< <<TITLE, AList>>, <<PRICE, AList>> >>)>>,
             <<RIGHT, Obj(<< <<TITLE, Str(<<"P","C">>)>>, <<PRICE, None>> >>)>> >>),
      Obj(<< <<NOTE, Str(<<"o","k">>)>> >>),
      Obj(<< <<LEFT, Str(<<"T","V">>)>>,
             <<RIGHT, Obj(<< <<TITLE, Str(<<"P","C">>)>> >>)>> >>),
      Obj(<< <<LEFT, None>>,
             <<RIGHT, Obj(<< <<TITLE, Str(<<"P","C">>)>> >>)>> >>),
      AList }
    [] script = "camers/process" ->
    { Obj(<< <<LEFT_TITLE, Str(<<"N","i","k","o","n">>)>> >>),
      Obj(<< <<LEFT_TITLE, Str(<<"S","o","n","y"," ","A","7">>)>>, <<RIGHT_TITLE, None>>,
             <<LABEL, Num(1000)>>, <<NOTE, Str(<<"o","k">>)>> >>),
      Obj(<< <<LEFT, Obj(<< <<TITLE, Str(<<"S","o","n","y"," ","A","7">>)>> >>)>> >>),
      Str(<<"o","k">>),
      AList }
    [] script = "DBLACM/prompt" ->
    { Obj(<< <<LEFT, Obj(<< <<TITLE, Str(<<"J","o","i","n","s">>)>>,
                            <<NOTE, Str(<<"o","k">>)>>,
                            <<YEAR, Num(1999000)>> >>)>>,
             <<RIGHT, Obj(<< <<TITLE, Str(<<"V","i","e","w","s">>)>> >>)>> >>),
      Obj(<< <<NOTE, Str(<<"o","k">>)>> >>),
      Obj(<< <<LEFT, Str(<<"J","o","i","n","s">>)>>,
             <<RIGHT, Obj(<< <<TITLE, Str(<<"V","i","e","w","s">>)>> >>)>> >>),
      Obj(<< <<LEFT, None>>,
             <<RIGHT, Obj(<< <<TITLE, Str(<<"V","i","e","w","s">>)>> >>)>> >>),
      AList }

\* what a call of the chat endpoint can do: raise, return a text that is
\* no JSON, return a JSON value as it is, or return the object of the
\* asked-for shape in a fence or among words
Outcomes(script) ==
  {Raise("ConnectionError"), Completion("bare", NotJson),
   Completion("bare", GoodJson(script)),
   Completion("fenced", GoodJson(script)),
   Completion("prose", GoodJson(script))}
    \cup {Completion("bare", j) : j \in OtherJson(script)}

\* pd.DataFrame(all_rows): the columns are the keys of the rows, in the
\* order in which they first come; a row that lacks a column has nan there
RECURSIVE ColumnsOfRows(_, _)
ColumnsOfRows(rows, columns) ==
  IF rows = <<>> THEN columns
  ELSE ColumnsOfRows(Tail(rows),
         columns \o SelectSeq([k \in DOMAIN Head(rows).d |-> Head(rows).d[k].key],
                              LAMBDA key : key \notin Range(columns)))

DataFrameOfRows(rows) ==
  LET columns == ColumnsOfRows(rows, <<>>)
  IN  [columns |-> columns,
       rows    |-> [r \in DOMAIN rows |->
                      [c \in DOMAIN columns |->
                         [key |-> columns[c],
                          val |-> DictGetOr(rows[r].d, columns[c], NaN)]]]]

\* df = pd.read_csv(input_csv); all_rows = []
LlmInit ==
  /\ TokIdle
  /\ variant \in Scripts
  /\ input_csv \in InputFiles(variant)
  /\ pc = "rows"
  /\ idx = 1
  /\ chat = <<>>
  /\ all_rows = <<>>
  /\ enriched_df = NoFrame
  /\ visited = {}
  /\ lines = <<>>
  /\ preferred_order = NoPreferredOrder
  /\ all_fields = {}
  /\ ordered_fields = <<>>
  /\ data = <<>>
  /\ row_id = 0
  /\ log = <<>>
  /\ df = NoFrame
  /\ csv = NoCsv

\* one turn of "for _, row in df.iterrows()": the chat endpoint does one
\* of the things it can do, and new_row is appended to all_rows, unless an
\* exception leaves process_dataset
ProcessRow ==
  /\ pc = "rows"
  /\ idx <= Len(input_csv)
  /\ \E outcome \in Outcomes(variant) :
       LET new_row == NewRow(variant, input_csv[idx], outcome)
       IN  /\ chat' = Append(chat, [prompt  |-> PromptOf(variant, input_csv[idx]),
                                    outcome |-> outcome])
           /\ IF Raised(new_row)
              THEN pc' = "aborted" /\ UNCHANGED <<all_rows, idx>>
              ELSE /\ all_rows' = Append(all_rows, new_row)
                   /\ idx' = idx + 1
                   /\ pc' = pc
  /\ UNCHANGED <<tokvars, visited, variant, lines, preferred_order,
                 all_fields, ordered_fields, data, row_id, log, df, csv,
                 input_csv, enriched_df>>

\* enriched_df = pd.DataFrame(all_rows); enriched_df.to_csv(output_csv,
\* index=False)
SaveEnriched ==
  /\ pc = "rows"
  /\ idx > Len(input_csv)
  /\ enriched_df' = DataFrameOfRows(all_rows)
  /\ pc' = "written"
  /\ UNCHANGED <<tokvars, visited, variant, lines, preferred_order, idx,
                 all_fields, ordered_fields, data, row_id, log, df, csv,
                 input_csv, chat, all_rows>>

LlmNext ==
  \/ ProcessRow
  \/ SaveEnriched

LlmSpec == LlmInit /\ [][LlmNext]_vars

\* the id and the label of a row: row.get("id"), row.get("label")
IdOf(row) == DictGetOr(row, ID, None)

LabelOf(row) == DictGetOr(row, LABEL, None)

\* the call gave no JSON value: it raised, or json.loads raised on what it
\* returned
NoJsonFrom(script, outcome) ==
  \/ Raised(outcome)
  \/ Raised(IF script = "walmart/prompt" THEN extract_json(outcome)
            ELSE json_loads(outcome))

\* the call returned JSON that is not an object with left and right objects
NotAPair(outcome) ==
  /\ ~Raised(outcome)
  /\ outcome.json # NotJson
  /\ \/ outcome.json.t # "dict"
     \/ DictGetOr(outcome.json.d, LEFT, None).t # "dict"
     \/ DictGetOr(outcome.json.d, RIGHT, None).t # "dict"

C29_FallbackKeepsData ==
  (variant \in Scripts) =>
    \A r \in DOMAIN all_rows :
      NoJsonFrom(variant, chat[r].outcome) =>
        \A k \in DOMAIN input_csv[r] :
          (input_csv[r][k].key \notin {ID, LABEL}) =>
            /\ HasKey(all_rows[r].d, input_csv[r][k].key)
            /\ DictGetOr(all_rows[r].d, input_csv[r][k].key, None)
                 = input_csv[r][k].val

\* the columns of a row of walmart/prompt.py
WalmartColumns ==
  {ID, LABEL} \cup
  {ColName(side, EXPECTED_KEYS("walmart/prompt")[k]) :
     side \in {LEFT, RIGHT}, k \in DOMAIN EXPECTED_KEYS("walmart/prompt")}

(***************************************************************************)
(* C30.  Walmart LLM stage uniform columns: for any completion returned by *)
(* the chat endpoint, every row emitted by process_dataset has exactly the *)
(* columns id, label and left_/right_ of title, category, brand, modelno,  *)
(* price (extra keys in the completion are dropped, missing ones filled),  *)
(* and each price is either a number or the string 'unknown'.              *)
(***************************************************************************)
C30_UniformColumns ==
  (variant = "walmart/prompt") =>
    \A r \in DOMAIN all_rows :
      ~Raised(chat[r].outcome) =>
        /\ Keys(all_rows[r].d) = WalmartColumns
        /\ \A side \in {LEFT, RIGHT} :
             LET price == DictGetOr(all_rows[r].d, ColName(side, PRICE),
                                    None)
             IN  price.t = "num" \/ price = UNKNOWN

=============================================================================
